---- MODULE Spec2Model ----
(***************************************************************************)
(* Ledger engine of a2-blockchain: transactions and the unspent-output     *)
(* set, blocks and their hashes, the Merkle commitment, proof-of-work,     *)
(* the transaction validator and the chain manager (block admission,       *)
(* mining, longest-chain reorganization).                                  *)
(*                                                                         *)
(* SHA-256 digests are modelled by collision-free structured values: the   *)
(* digest of a payload is the payload itself (a tuple), so two digests are *)
(* equal exactly when the hashed payloads are equal.  The number of        *)
(* leading zero hex characters of a block digest is a fixed function of    *)
(* the hashed header (LeadingZeros).  Timestamps are milliseconds.         *)
(***************************************************************************)
EXTENDS Integers, Sequences, FiniteSets, TLC, Bags

\* ---------------------------------------------------------------- bounds
MaxTime == 2        \* the wall clock runs from 1 to MaxTime
MaxChain == 3       \* blocks held in a chain (own or alternative)
MaxPool == 1        \* transactions waiting in the mempool
MaxMiners == 1      \* mineBlock calls in flight at the same time
MaxRacers == 2      \* mineBlock calls in flight in the race of the miners
MaxMintTime == 4    \* the wall clock of the miners that mine in turn
MaxRecent == 6      \* blocks handed to calculateNextDifficulty
MaxDifficulty == 2  \* the current difficulty handed to calculateNextDifficulty
MaxListings == 1    \* getter calls whose result the caller changes
SearchWindow == 2   \* nonce attempts left before the safety limit when a
                    \* search is taken up late
MaxSearchTicks == 3 \* advances of the wall clock during a search

\* ------------------------------------------------------ program constants
BlockReward == 50
TwoHours == 2 * 60 * 60 * 1000
TamperShift == 1000
DefaultTamperedAmount == 500
OneSecond == 1000
ProgressInterval == 1000
SelectMax == 10
SafetyLimit == 10000000
TargetBlockTime == 10000
AdjustmentInterval == 5
MaxAdjustment == 4
GenesisDifficulty == 1

\* the address the local miner is paid at
Miners == {"alice"}

VARIABLES
    blocks,     \* Blockchain.blocks: the chain, genesis first
    utxos,      \* UTXOSet.utxos: (txId, outputIndex) -> [address, amount]
    pool,       \* TransactionPool.transactions, in insertion order
    mempool,    \* TransactionValidator.mempool
    mining,     \* candidates of the mineBlock calls awaiting their search
    now,        \* Date.now()
    stored,     \* the tables of the database, followed in PersistSpec
    adjustment, \* a call of calculateNextDifficulty, followed in AdjustSpec
    search,     \* a call of ProofOfWork.mineBlock, followed in SearchSpec
    handed      \* what the last getter call gave its caller, as the caller
                \* left it

vars == <<blocks, utxos, pool, mempool, mining, now, stored, adjustment, search, handed>>

\* ------------------------------------------------------------ sequences
Last(s) == s[Len(s)]

Range(s) == {s[i] : i \in 1..Len(s)}

Min(a, b) == IF a < b THEN a ELSE b

Max(a, b) == IF a > b THEN a ELSE b

\* "0".repeat(64)
ZeroHash == <<>>

\* ---------------------------------------------------------- Transaction
TxInput(txId, outputIndex) == [txId |-> txId, outputIndex |-> outputIndex]

TxOutput(address, amount) == [address |-> address, amount |-> amount]

\* sha256(JSON.stringify({timestamp, inputs, outputs}))
CalculateId(timestamp, inputs, outputs) == <<timestamp, inputs, outputs>>

\* new Transaction(inputs, outputs, timestamp)
Transaction(inputs, outputs, timestamp) ==
    [id |-> CalculateId(timestamp, inputs, outputs),
     timestamp |-> timestamp, inputs |-> inputs, outputs |-> outputs]

RECURSIVE SumOutputs(_)
SumOutputs(outputs) ==
    IF outputs = <<>> THEN 0 ELSE Head(outputs).amount + SumOutputs(Tail(outputs))

\* Transaction.getTotalOutputAmount
GetTotalOutputAmount(tx) == SumOutputs(tx.outputs)

\* Transaction.isValid
TxIsValid(tx) ==
    /\ ~(tx.inputs = <<>> /\ tx.outputs = <<>>)
    /\ \A i \in 1..Len(tx.outputs) : tx.outputs[i].amount > 0
    /\ tx.id = CalculateId(tx.timestamp, tx.inputs, tx.outputs)

\* Transaction.createCoinbase, called at wall-clock time t
CreateCoinbase(minerAddress, amount, t) ==
    Transaction(<<>>, <<TxOutput(minerAddress, amount)>>, t)

\* Transaction.serialize: the JSON text, its members in the order written
TxSerialize(tx) == <<tx.id, tx.timestamp, tx.inputs, tx.outputs>>

\* what a deserialize call ends with: an exception, or the object built
Thrown == [thrown |-> TRUE]

Returned(value) == [thrown |-> FALSE, value |-> value]

\* a Transaction.deserialize that does not compare the ids
TxDeserializeUnverified(json, t) ==
    Returned(Transaction(json[3], json[4], IF json[2] = 0 THEN t ELSE json[2]))

\* Transaction.deserialize, called at wall-clock time t: the constructor
\* takes the clock for a time stamp of 0 and computes the id anew
TxDeserialize(json, t) ==
    LET tx == Transaction(json[3], json[4], IF json[2] = 0 THEN t ELSE json[2])
    IN IF tx.id # json[1] THEN Thrown ELSE Returned(tx)

\* -------------------------------------------------------------- UTXOSet
UtxoKey(txId, outputIndex) == <<txId, outputIndex>>

EmptyUtxos == [k \in {} |-> 0]

\* UTXOSet.addUTXO: Map.set, an existing entry is overwritten
AddUTXO(u, txId, outputIndex, output) ==
    [k \in DOMAIN u \cup {UtxoKey(txId, outputIndex)} |->
        IF k = UtxoKey(txId, outputIndex)
        THEN [address |-> output.address, amount |-> output.amount]
        ELSE u[k]]

\* UTXOSet.spendUTXO: a missing entry is left alone (returns false)
SpendUTXO(u, txId, outputIndex) ==
    [k \in DOMAIN u \ {UtxoKey(txId, outputIndex)} |-> u[k]]

\* UTXOSet.hasUnspentUTXO
HasUnspentUTXO(u, txId, outputIndex) == UtxoKey(txId, outputIndex) \in DOMAIN u

\* UTXOSet.canSpendTransaction
CanSpendTransaction(u, tx) ==
    \A i \in 1..Len(tx.inputs) :
        HasUnspentUTXO(u, tx.inputs[i].txId, tx.inputs[i].outputIndex)

RECURSIVE SumAmounts(_, _)
SumAmounts(u, keys) ==
    IF keys = {} THEN 0
    ELSE LET k == CHOOSE x \in keys : TRUE
         IN u[k].amount + SumAmounts(u, keys \ {k})

\* UTXOSet.getBalance
GetBalance(u, address) ==
    SumAmounts(u, {k \in DOMAIN u : u[k].address = address})

\* ----------------------------------------------------------- MerkleTree
\* A node hash is a sequence of transaction-id shaped items: the hash of a
\* leaf is the one-element sequence, the hash of an inner node brackets the
\* concatenation of its children's hashes.
MerkleOpen == CalculateId(0 - 1, <<>>, <<>>)

MerkleClose == CalculateId(0 - 2, <<>>, <<>>)

\* MerkleTree.hash applied to a leaf
HashLeaf(item) == <<item>>

\* MerkleTree.combineHashes
CombineHashes(left, right) == <<MerkleOpen>> \o left \o right \o <<MerkleClose>>

\* one level of MerkleTree.buildTree: pair the nodes, an odd last node is
\* paired with itself
RECURSIVE NextLevel(_)
NextLevel(nodes) ==
    IF nodes = <<>> THEN <<>>
    ELSE IF Len(nodes) = 1 THEN <<CombineHashes(nodes[1], nodes[1])>>
    ELSE <<CombineHashes(nodes[1], nodes[2])>> \o NextLevel(Tail(Tail(nodes)))

\* MerkleTree.buildTree
RECURSIVE BuildTree(_)
BuildTree(nodes) ==
    IF Len(nodes) = 1 THEN nodes[1] ELSE BuildTree(NextLevel(nodes))

\* the item hashed for the placeholder leaf: "0".repeat(64)
ZeroLeaf == ZeroHash

\* MerkleTree.fromTransactionIds(ids).getRootHash()
FromTransactionIds(ids) ==
    IF ids = <<>> THEN BuildTree(<<HashLeaf(ZeroLeaf)>>)
    ELSE BuildTree([i \in 1..Len(ids) |-> HashLeaf(ids[i])])

\* ---------------------------------------------------------------- Block
\* Block.calculateMerkleRoot
CalculateMerkleRoot(transactions) ==
    IF transactions = <<>> THEN ZeroHash
    ELSE FromTransactionIds([i \in 1..Len(transactions) |-> transactions[i].id])

\* Block.calculateHash: the digest of
\* {index, timestamp, previousHash, merkleRoot, nonce, difficulty}
CalculateHash(b) ==
    <<b.index, b.timestamp, b.previousHash, b.merkleRoot, b.nonce, b.difficulty>>

\* new Block(index, transactions, previousHash, nonce, difficulty, timestamp)
Block(index, transactions, previousHash, nonce, difficulty, timestamp) ==
    LET h == [index |-> index, timestamp |-> timestamp,
              previousHash |-> previousHash,
              merkleRoot |-> CalculateMerkleRoot(transactions),
              nonce |-> nonce, difficulty |-> difficulty]
    IN [index |-> index, timestamp |-> timestamp,
        transactions |-> transactions, previousHash |-> previousHash,
        merkleRoot |-> h.merkleRoot, nonce |-> nonce,
        difficulty |-> difficulty, hash |-> CalculateHash(h)]

\* number of leading "0" characters of a block digest
LeadingZeros(h) ==
    IF h = ZeroHash THEN 64
    ELSE LET m == (h[1] + h[2] + Len(h[3]) + Len(h[4]) + h[5] + h[6]) % 4
         IN IF m = 0 THEN 2 ELSE IF m = 2 THEN 1 ELSE 0

\* Block.hasValidProofOfWork: hash.startsWith("0".repeat(difficulty))
HasValidProofOfWork(b) == LeadingZeros(b.hash) >= b.difficulty

\* a Block.isValid that does not recompute the Merkle root
BlockIsValidUnrooted(b) ==
    /\ b.hash = CalculateHash(b)
    /\ \A i \in 1..Len(b.transactions) : TxIsValid(b.transactions[i])
    /\ LeadingZeros(b.hash) >= b.difficulty

\* Block.isValid
BlockIsValid(b) ==
    /\ b.hash = CalculateHash(b)
    /\ b.merkleRoot = CalculateMerkleRoot(b.transactions)
    /\ \A i \in 1..Len(b.transactions) : TxIsValid(b.transactions[i])
    /\ LeadingZeros(b.hash) >= b.difficulty

\* a Block.isValidSuccessor that does not compare the time stamps
IsValidSuccessorUntimed(b, previousBlock) ==
    /\ b.index = previousBlock.index + 1
    /\ b.previousHash = previousBlock.hash

\* Block.isValidSuccessor
IsValidSuccessor(b, previousBlock) ==
    /\ b.index = previousBlock.index + 1
    /\ b.previousHash = previousBlock.hash
    /\ b.timestamp > previousBlock.timestamp

\* Block.incrementNonce
IncrementNonce(b) ==
    Block(b.index, b.transactions, b.previousHash, b.nonce + 1, b.difficulty,
          b.timestamp)

\* Block.createGenesis(genesisMessage) with a message, at wall-clock time t
CreateGenesis(t) ==
    Block(0, <<CreateCoinbase("genesis", 0, t)>>, ZeroHash, 0,
          GenesisDifficulty, t)

\* Block.createCandidate, at wall-clock time t
CreateCandidate(index, transactions, previousHash, difficulty, t) ==
    Block(index, transactions, previousHash, 0, difficulty, t)

\* Block.serialize: the JSON text, its members in the order written, the
\* transactions as their own JSON texts
BlockSerialize(b) ==
    <<b.index, b.timestamp,
      [i \in 1..Len(b.transactions) |-> TxSerialize(b.transactions[i])],
      b.previousHash, b.merkleRoot, b.nonce, b.difficulty, b.hash>>

\* Block.deserialize, called at wall-clock time t: the transactions are
\* deserialized, the constructor computes the Merkle root and the hash anew
BlockDeserialize(json, t) ==
    LET results == [i \in 1..Len(json[3]) |-> TxDeserialize(json[3][i], t)]
    IN IF \E i \in 1..Len(results) : results[i].thrown THEN Thrown
       ELSE LET block == Block(json[1],
                               [i \in 1..Len(results) |-> results[i].value],
                               json[4], json[6], json[7],
                               IF json[2] = 0 THEN t ELSE json[2])
            IN IF block.hash # json[8] THEN Thrown ELSE Returned(block)

\* ---------------------------------------------------------- ProofOfWork
NoBlock == [found |-> FALSE]

Found(b) == [found |-> TRUE, block |-> b]

\* the nonce loop of ProofOfWork.mineBlock, attempts already made
RECURSIVE Search(_, _)
Search(b, attempts) ==
    IF HasValidProofOfWork(b) THEN Found(b)
    ELSE IF attempts + 1 > SafetyLimit THEN NoBlock
    ELSE Search(IncrementNonce(b), attempts + 1)

\* ProofOfWork.mineBlock
PowMineBlock(candidate) == Search(candidate, 0)

\* a validateProofOfWork that does not recompute the hash
ValidateProofOfWorkUnhashed(b) == HasValidProofOfWork(b)

\* a pass of the loop without the safety check
SearchPassUnlimited(s, continue, t) ==
    IF HasValidProofOfWork(s.block)
    THEN [s EXCEPT !.returned = <<Found(s.block)>>]
    ELSE LET tried == [s EXCEPT !.attempts = @ + 1,
                                !.block = IncrementNonce(@)]
         IN IF t - s.lastProgressUpdate >= ProgressInterval
            THEN IF ~continue THEN [tried EXCEPT !.returned = <<NoBlock>>]
                 ELSE [tried EXCEPT !.lastProgressUpdate = t]
            ELSE tried

\* one pass of the loop of ProofOfWork.mineBlock at wall-clock time t, for
\* the current block, the attempts made and the time of the last progress
\* update that s holds; continue is what onProgress returns if it is called
SearchPass(s, continue, t) ==
    IF HasValidProofOfWork(s.block)
    THEN [s EXCEPT !.returned = <<Found(s.block)>>]
    ELSE LET tried == [s EXCEPT !.attempts = @ + 1,
                                !.block = IncrementNonce(@)]
             updated == IF t - s.lastProgressUpdate >= ProgressInterval
                        THEN [tried EXCEPT !.lastProgressUpdate = t]
                        ELSE tried
         IN IF t - s.lastProgressUpdate >= ProgressInterval /\ ~continue
            THEN [tried EXCEPT !.returned = <<NoBlock>>]
            ELSE IF updated.attempts > SafetyLimit
            THEN [updated EXCEPT !.returned = <<NoBlock>>]
            ELSE updated

\* ProofOfWork.validateProofOfWork
ValidateProofOfWork(b) ==
    /\ HasValidProofOfWork(b)
    /\ b.hash = CalculateHash(b)

\* the difficulty is left as it is, whatever the block times
KeepDifficulty(recentBlocks, currentDifficulty) == currentDifficulty

\* an adjustment that knows one step up only and tests it first
AdjustDifficultyOneStep(recentBlocks, currentDifficulty) ==
    LET actualTime == Last(recentBlocks).timestamp
                      - recentBlocks[Len(recentBlocks) - AdjustmentInterval + 1].timestamp
        expectedTime == TargetBlockTime * (AdjustmentInterval - 1)
    IN IF actualTime > expectedTime THEN Max(1, currentDifficulty - 1)
       ELSE IF 10 * actualTime < 8 * expectedTime THEN currentDifficulty + 1
       ELSE Max(1, currentDifficulty)

\* an adjustment without the last Math.max(1, newDifficulty)
AdjustDifficultyUnclamped(recentBlocks, currentDifficulty) ==
    LET actualTime == Last(recentBlocks).timestamp
                      - recentBlocks[Len(recentBlocks) - AdjustmentInterval + 1].timestamp
        expectedTime == TargetBlockTime * (AdjustmentInterval - 1)
    IN IF actualTime > expectedTime THEN Max(1, currentDifficulty - 1)
       ELSE IF 2 * actualTime < expectedTime THEN currentDifficulty + 2
       ELSE IF 10 * actualTime < 8 * expectedTime THEN currentDifficulty + 1
       ELSE currentDifficulty

\* ProofOfWork.calculateNextDifficulty past its early returns; the ratio
\* actualTime / expectedTime is kept as the fraction n / d
AdjustDifficulty(recentBlocks, currentDifficulty) ==
        LET oldestBlock == recentBlocks[Len(recentBlocks) - AdjustmentInterval + 1]
            newestBlock == Last(recentBlocks)
            actualTime == newestBlock.timestamp - oldestBlock.timestamp
            expectedTime == TargetBlockTime * (AdjustmentInterval - 1)
            \* Math.min(maxAdjustment, ratio)
            capped == IF actualTime > MaxAdjustment * expectedTime
                      THEN <<MaxAdjustment, 1>>
                      ELSE <<actualTime, expectedTime>>
            \* Math.max(1 / maxAdjustment, capped)
            limited == IF capped[1] * MaxAdjustment < capped[2]
                       THEN <<1, MaxAdjustment>>
                       ELSE capped
            n == limited[1]
            d == limited[2]
            newDifficulty ==
                IF n > d THEN Max(1, currentDifficulty - 1)
                ELSE IF 2 * n < d THEN currentDifficulty + 2
                ELSE IF 10 * n < 8 * d THEN currentDifficulty + 1
                ELSE currentDifficulty
        IN Max(1, newDifficulty)

\* the difficulty is adjusted after any block, checkpoint or not
CalculateNextDifficultyAnywhere(recentBlocks, currentDifficulty) ==
    IF Len(recentBlocks) < 2 THEN currentDifficulty
    ELSE IF Len(recentBlocks) < AdjustmentInterval THEN currentDifficulty
    ELSE AdjustDifficulty(recentBlocks, currentDifficulty)

\* ProofOfWork.calculateNextDifficulty
CalculateNextDifficulty(recentBlocks, currentDifficulty) ==
    IF Len(recentBlocks) < 2 THEN currentDifficulty
    ELSE IF Last(recentBlocks).index % AdjustmentInterval # 0
    THEN currentDifficulty
    ELSE IF Len(recentBlocks) < AdjustmentInterval THEN currentDifficulty
    ELSE AdjustDifficulty(recentBlocks, currentDifficulty)

\* ------------------------------------------------- TransactionValidator
Repeat(e, n) == [i \in 1..n |-> e]

InputKey(input) == UtxoKey(input.txId, input.outputIndex)

\* TransactionValidator.checkDuplicateInputs: one error per repeated input
CheckDuplicateInputs(tx) ==
    Repeat("duplicate",
           Cardinality({i \in 1..Len(tx.inputs) :
               \E j \in 1..(i - 1) : InputKey(tx.inputs[j]) = InputKey(tx.inputs[i])}))

\* TransactionValidator.checkUTXOValidity: one error per input that is not
\* an unspent output
CheckUTXOValidity(tx, u) ==
    Repeat("utxo",
           Cardinality({i \in 1..Len(tx.inputs) :
               ~HasUnspentUTXO(u, tx.inputs[i].txId, tx.inputs[i].outputIndex)}))

RECURSIVE TotalInputValue(_, _)
TotalInputValue(inputs, u) ==
    IF inputs = <<>> THEN 0
    ELSE (IF InputKey(Head(inputs)) \in DOMAIN u
          THEN u[InputKey(Head(inputs))].amount ELSE 0)
         + TotalInputValue(Tail(inputs), u)

\* TransactionValidator.checkSufficientBalance
CheckSufficientBalance(tx, u) ==
    IF TotalInputValue(tx.inputs, u) < GetTotalOutputAmount(tx)
    THEN <<"balance">> ELSE <<>>

\* the (input, mempool transaction, mempool input) triples that collide
MempoolConflicts(tx, mp) ==
    UNION {{<<i, m.id, j>> : j \in {x \in 1..Len(m.inputs) :
                InputKey(m.inputs[x]) = InputKey(tx.inputs[i])}} :
           i \in 1..Len(tx.inputs), m \in {y \in mp : y.id # tx.id}}

\* a checkMempoolConflicts that reports nothing
CheckMempoolConflictsSkipped(tx, mp) == <<>>

\* TransactionValidator.checkMempoolConflicts: one error per collision
CheckMempoolConflicts(tx, mp) ==
    Repeat("double_spend", Cardinality(MempoolConflicts(tx, mp)))

\* TransactionValidator.validateTransaction: the errors, result.isValid is
\* "no errors"
ValidateTransaction(tx, u, mp) ==
    IF ~TxIsValid(tx) THEN <<"structure">>
    ELSE IF tx.inputs = <<>>
    THEN (IF tx.outputs = <<>> THEN <<"coinbase">> ELSE <<>>)
    ELSE CheckDuplicateInputs(tx) \o CheckUTXOValidity(tx, u)
         \o CheckSufficientBalance(tx, u) \o CheckMempoolConflicts(tx, mp)

\* the entry that recordDoubleSpendAttempt pushes for an input of the
\* transaction and the id of a conflicting transaction, at time t
DoubleSpendAttempt(tx, conflictingTxId, input, t) ==
    [attemptedTxId |-> tx.id,
     conflictingTxId |-> conflictingTxId,
     conflictingInput |-> input,
     utxoId |-> InputKey(input),
     timestamp |-> t]

\* TransactionValidator.recordDoubleSpendAttempt at time t: for every error
\* of checkMempoolConflicts, one entry for every input of the transaction;
\* the entries pushed, each with the number of times it is pushed
RecordDoubleSpendAttempt(tx, mp, t) ==
    LET pushes == MempoolConflicts(tx, mp) \X (1..Len(tx.inputs))
        Pushed(push) == DoubleSpendAttempt(tx, push[1][2], tx.inputs[push[2]], t)
    IN [a \in {Pushed(push) : push \in pushes} |->
           Cardinality({push \in pushes : Pushed(push) = a})]

\* the entries that a call of validateTransaction at time t adds to
\* doubleSpendAttempts
RecordedAttempts(tx, u, mp, t) ==
    IF ~TxIsValid(tx) \/ tx.inputs = <<>> THEN EmptyBag
    ELSE IF CheckMempoolConflicts(tx, mp) = <<>> THEN EmptyBag
    ELSE RecordDoubleSpendAttempt(tx, mp, t)

\* ------------------------------------------------------ TransactionPool
PoolIds(p) == {p[i].id : i \in 1..Len(p)}

\* TransactionPool.addTransaction: would the pool take it
PoolAccepts(p, tx) == TxIsValid(tx) /\ tx.id \notin PoolIds(p)

\* TransactionPool.removeTransaction
RemoveTransaction(p, id) == SelectSeq(p, LAMBDA t : t.id # id)

\* TransactionPool.selectTransactionsForBlock
SelectTransactionsForBlock(p, maxTransactions) ==
    SubSeq(p, 1, Min(maxTransactions, Len(p)))

\* ----------------------------------------------------------- Blockchain
\* what a public call leaves behind: the ledger state and the value returned
Outcome(ok, errors, bl, u, p, mp) ==
    [ok |-> ok, errors |-> errors, blocks |-> bl, utxos |-> u, pool |-> p,
     mempool |-> mp]

\* Blockchain.getLatestBlock
GetLatestBlock(bl) == Last(bl)

RECURSIVE SpendInputs(_, _)
SpendInputs(u, inputs) ==
    IF inputs = <<>> THEN u
    ELSE SpendInputs(SpendUTXO(u, Head(inputs).txId, Head(inputs).outputIndex),
                     Tail(inputs))

RECURSIVE AddOutputs(_, _, _, _)
AddOutputs(u, txId, outputs, index) ==
    IF index >= Len(outputs) THEN u
    ELSE AddOutputs(AddUTXO(u, txId, index, outputs[index + 1]), txId, outputs,
                    index + 1)

\* the body of the loop of Blockchain.updateUTXOSet for one transaction
ApplyTransaction(u, tx) ==
    AddOutputs(SpendInputs(u, tx.inputs), tx.id, tx.outputs, 0)

RECURSIVE ApplyTransactions(_, _)
ApplyTransactions(u, txs) ==
    IF txs = <<>> THEN u
    ELSE ApplyTransactions(ApplyTransaction(u, Head(txs)), Tail(txs))

\* Blockchain.updateUTXOSet
UpdateUTXOSet(u, block) == ApplyTransactions(u, block.transactions)

RECURSIVE ApplyBlocks(_, _)
ApplyBlocks(u, bl) ==
    IF bl = <<>> THEN u ELSE ApplyBlocks(UpdateUTXOSet(u, Head(bl)), Tail(bl))

\* Blockchain.rebuildUTXOSet: clear, then every block of the chain in order
RebuildUTXOSet(bl) == ApplyBlocks(EmptyUtxos, bl)

BlockTxIds(block) == {block.transactions[i].id : i \in 1..Len(block.transactions)}

\* Blockchain.removeTransactionsFromPool, the TransactionPool side
RemoveFromPool(p, block) == SelectSeq(p, LAMBDA t : t.id \notin BlockTxIds(block))

\* Blockchain.removeTransactionsFromPool, the TransactionValidator side
RemoveFromMempool(mp, block) == {t \in mp : t.id \notin BlockTxIds(block)}

\* Blockchain.validateChronologicalOrder at wall-clock time t
ValidateChronologicalOrder(bl, block, t) ==
    /\ block.timestamp > GetLatestBlock(bl).timestamp
    /\ block.timestamp <= t + TwoHours
    /\ block.index = GetLatestBlock(bl).index + 1

\* Blockchain.validateBlockTransactions
ValidateBlockTransactions(u, block) ==
    \A i \in 1..Len(block.transactions) :
        /\ TxIsValid(block.transactions[i])
        /\ CanSpendTransaction(u, block.transactions[i])

\* the five validation stages of Blockchain.addBlock
AddBlockStages(bl, u, block, t) ==
    /\ BlockIsValid(block)
    /\ ValidateProofOfWork(block)
    /\ IsValidSuccessor(block, GetLatestBlock(bl))
    /\ ValidateChronologicalOrder(bl, block, t)
    /\ ValidateBlockTransactions(u, block)

\* a failed save that leaves the pushed block in the chain
PopNothing(bl) == bl

\* this.blocks.pop() after a failed save
Pop(bl) == SubSeq(bl, 1, Len(bl) - 1)

\* Blockchain.addBlock at wall-clock time t; saveOk is what
\* BlockchainStorage.saveBlock returns
AddBlock(bl, u, p, mp, block, saveOk, t) ==
    IF ~AddBlockStages(bl, u, block, t) THEN Outcome(FALSE, <<>>, bl, u, p, mp)
    ELSE LET pushed == Append(bl, block)
         IN IF ~saveOk THEN Outcome(FALSE, <<>>, Pop(pushed), u, p, mp)
            ELSE Outcome(TRUE, <<>>, pushed, UpdateUTXOSet(u, block),
                         RemoveFromPool(p, block), RemoveFromMempool(mp, block))

\* Blockchain.addTransaction
AddTransaction(bl, u, p, mp, tx) ==
    LET errors == ValidateTransaction(tx, u, mp)
    IN IF errors # <<>> THEN Outcome(FALSE, errors, bl, u, p, mp)
       ELSE IF PoolAccepts(p, tx)
       THEN Outcome(TRUE, <<>>, bl, u, Append(p, tx),
                    {m \in mp : m.id # tx.id} \cup {tx})
       ELSE Outcome(FALSE, <<"pool">>, bl, u, p, mp)

\* Blockchain.calculateNextDifficulty
NextDifficulty(bl) == CalculateNextDifficulty(bl, GetLatestBlock(bl).difficulty)

\* Blockchain.mineBlock up to the await: the coinbase transaction reads the
\* wall clock at tc, the candidate block reads it later, at t
MiningCandidateAt(bl, p, minerAddress, tc, t) ==
    CreateCandidate(GetLatestBlock(bl).index + 1,
                    <<CreateCoinbase(minerAddress, BlockReward, tc)>>
                        \o SelectTransactionsForBlock(p, SelectMax),
                    GetLatestBlock(bl).hash, NextDifficulty(bl), t)

\* Blockchain.mineBlock up to the await when the wall clock does not advance
\* between the two readings
MiningCandidate(bl, p, minerAddress, t) ==
    MiningCandidateAt(bl, p, minerAddress, t, t)

\* a mineBlock that pushes the block it found without calling addBlock
SubmitMinedBlindly(bl, u, p, mp, candidate, saveOk, t) ==
    LET mined == PowMineBlock(candidate)
    IN IF mined.found
       THEN Outcome(TRUE, <<>>, Append(bl, mined.block),
                    UpdateUTXOSet(u, mined.block), RemoveFromPool(p, mined.block),
                    RemoveFromMempool(mp, mined.block))
       ELSE Outcome(FALSE, <<>>, bl, u, p, mp)

\* Blockchain.mineBlock after the await: search, then addBlock
SubmitMined(bl, u, p, mp, candidate, saveOk, t) ==
    LET mined == PowMineBlock(candidate)
    IN IF mined.found THEN AddBlock(bl, u, p, mp, mined.block, saveOk, t)
       ELSE Outcome(FALSE, <<>>, bl, u, p, mp)

\* Blockchain.validateAlternativeChain
ValidateAlternativeChain(bl, chain) ==
    /\ chain # <<>>
    /\ chain[1].hash = bl[1].hash
    /\ \A i \in 2..Len(chain) :
        /\ BlockIsValid(chain[i])
        /\ ValidateProofOfWork(chain[i])
        /\ IsValidSuccessor(chain[i], chain[i - 1])

\* a findForkPoint that takes the alternative chain for an extension of the
\* own chain
FindForkPointAtTip(bl, alternativeChain) ==
    Min(Len(bl), Len(alternativeChain)) - 1

\* Blockchain.findForkPoint: the array index (from 0) of the last common block
FindForkPoint(bl, alternativeChain) ==
    LET minLength == Min(Len(bl), Len(alternativeChain))
        differ == {i \in 0..(minLength - 1) :
                      bl[i + 1].hash # alternativeChain[i + 1].hash}
    IN IF differ = {} THEN minLength - 1
       ELSE (CHOOSE i \in differ : \A j \in differ : i <= j) - 1

RECURSIVE RemoveAllFromPool(_, _)
RemoveAllFromPool(p, bl) ==
    IF bl = <<>> THEN p ELSE RemoveAllFromPool(RemoveFromPool(p, Head(bl)), Tail(bl))

RECURSIVE RemoveAllFromMempool(_, _)
RemoveAllFromMempool(mp, bl) ==
    IF bl = <<>> THEN mp
    ELSE RemoveAllFromMempool(RemoveFromMempool(mp, Head(bl)), Tail(bl))

\* a reorganization that truncates the chain but keeps the unspent set as
\* it is before applying the alternative blocks
ReorganizeInPlace(bl, u, p, mp, alternativeChain, forkPoint) ==
    LET kept == SubSeq(bl, 1, forkPoint + 1)
        applied == SubSeq(alternativeChain, forkPoint + 2, Len(alternativeChain))
    IN Outcome(TRUE, <<>>, kept \o applied, ApplyBlocks(u, applied),
               RemoveAllFromPool(p, applied), RemoveAllFromMempool(mp, applied))

\* Blockchain.rollbackToBlock followed by the apply loop of
\* Blockchain.considerChainReorganization
Reorganize(bl, u, p, mp, alternativeChain, forkPoint) ==
    LET kept == SubSeq(bl, 1, forkPoint + 1)
        applied == SubSeq(alternativeChain, forkPoint + 2, Len(alternativeChain))
    IN Outcome(TRUE, <<>>, kept \o applied,
               ApplyBlocks(RebuildUTXOSet(kept), applied),
               RemoveAllFromPool(p, applied), RemoveAllFromMempool(mp, applied))

\* no longest chain rule: every chain is considered
AnyLength(bl, alternativeChain) == FALSE

\* a longest chain rule that lets a chain of equal length through
ShorterOnly(bl, alternativeChain) == Len(alternativeChain) < Len(bl)

\* the longest chain rule: only a longer chain is considered
NotLonger(bl, alternativeChain) == Len(alternativeChain) <= Len(bl)

\* Blockchain.considerChainReorganization
ConsiderChainReorganization(bl, u, p, mp, alternativeChain) ==
    IF NotLonger(bl, alternativeChain) THEN Outcome(FALSE, <<>>, bl, u, p, mp)
    ELSE IF ~ValidateAlternativeChain(bl, alternativeChain)
    THEN Outcome(FALSE, <<>>, bl, u, p, mp)
    ELSE LET forkPoint == FindForkPoint(bl, alternativeChain)
         IN IF forkPoint < 0 \/ forkPoint >= Len(bl)
            \* rollbackToBlock throws: the catch restores the chain and
            \* rebuilds the unspent set from it
            THEN Outcome(FALSE, <<>>, bl, RebuildUTXOSet(bl), p, mp)
            ELSE Reorganize(bl, u, p, mp, alternativeChain, forkPoint)

\* a validateChain that does not compare a block with the block before it
ValidateChainUnlinked(bl) ==
    \A i \in 2..Len(bl) :
        /\ BlockIsValid(bl[i])
        /\ ValidateProofOfWork(bl[i])

\* Blockchain.validateChain
ValidateChain(bl) ==
    \A i \in 2..Len(bl) :
        /\ BlockIsValid(bl[i])
        /\ ValidateProofOfWork(bl[i])
        /\ IsValidSuccessor(bl[i], bl[i - 1])

\* what Blockchain.validateChain reports before it returns: the index and
\* the kind of the first failure it meets, nothing when there is none
ValidateChainReport(bl) ==
    LET failing == {i \in 2..Len(bl) :
                       ~(/\ BlockIsValid(bl[i])
                         /\ ValidateProofOfWork(bl[i])
                         /\ IsValidSuccessor(bl[i], bl[i - 1]))}
    IN IF failing = {} THEN {}
       ELSE LET i == CHOOSE j \in failing : \A k \in failing : j <= k
            IN {[index |-> i - 1,
                 kind |-> IF ~BlockIsValid(bl[i]) THEN "block"
                          ELSE IF ~ValidateProofOfWork(bl[i])
                          THEN "proof-of-work" ELSE "linkage"]}

\* Transaction.isCoinbase
IsCoinbase(tx) == tx.inputs = <<>>

\* the copy of a block with its time stamp moved, as Blockchain.
\* demonstrateTampering builds it; the constructor recomputes the hash
Restamped(b) ==
    Block(b.index, b.transactions, b.previousHash, b.nonce, b.difficulty,
          b.timestamp + TamperShift)

\* Blockchain.demonstrateTampering up to its call of validateChain: the chain
\* that is validated
DemonstrateTampering(bl, blockIndex) ==
    [bl EXCEPT ![blockIndex + 1] = Restamped(bl[blockIndex + 1])]

\* the positions of the transactions tamperBlockData may pick
TamperTargets(b) ==
    {j \in 1..Len(b.transactions) :
        Len(b.transactions[j].outputs) > 0 /\ ~IsCoinbase(b.transactions[j])}

\* the replacement block of Blockchain.tamperBlockData
TamperedBlock(b, tamperedAmount) ==
    IF TamperTargets(b) = {} THEN Restamped(b)
    ELSE LET first == CHOOSE j \in TamperTargets(b) :
                          \A k \in TamperTargets(b) : j <= k
             txToTamper == b.transactions[first]
             tamperedTransactions ==
                 [j \in 1..Len(b.transactions) |->
                     LET tx == b.transactions[j]
                     IN IF tx.id = txToTamper.id
                        THEN Transaction(tx.inputs,
                                 [tx.outputs EXCEPT ![1].amount = tamperedAmount],
                                 tx.timestamp)
                        ELSE tx]
         IN Block(b.index, tamperedTransactions, b.previousHash, b.nonce,
                  b.difficulty, b.timestamp)

\* Blockchain.tamperBlockData: the chain it leaves
TamperBlockData(bl, blockIndex, tamperedAmount) ==
    IF blockIndex >= Len(bl) \/ blockIndex <= 0 THEN bl
    ELSE [bl EXCEPT ![blockIndex + 1] =
                       TamperedBlock(bl[blockIndex + 1], tamperedAmount)]

\* UTXOSet.getUTXOsForAddress: the keys of the unspent outputs of an address
GetUTXOsForAddress(u, address) == {k \in DOMAIN u : u[k].address = address}

\* the orders in which the Map of the unspent set may list the outputs of
\* an address
ListingOrders(u, address) ==
    LET keys == GetUTXOsForAddress(u, address)
    IN {order \in [1..Cardinality(keys) -> keys] :
           \A i, j \in 1..Cardinality(keys) : order[i] = order[j] => i = j}

RECURSIVE SumListed(_, _, _)
SumListed(u, order, n) ==
    IF n = 0 THEN 0 ELSE SumListed(u, order, n - 1) + u[order[n]].amount

\* the selection loop of Blockchain.createTransaction: the number of outputs
\* taken, in listing order, until their value reaches the amount
SelectedCount(u, order, amount) ==
    CHOOSE n \in 1..Len(order) :
        /\ n = Len(order) \/ SumListed(u, order, n) >= amount
        /\ \A m \in 1..(n - 1) : SumListed(u, order, m) < amount

\* a createTransaction that leaves the change to nobody
CreateTransactionNoChange(u, fromAddress, toAddress, amount, order, t) ==
    LET n == SelectedCount(u, order, amount)
    IN Transaction([i \in 1..n |-> TxInput(order[i][1], order[i][2])],
                   <<TxOutput(toAddress, amount)>>, t)

\* Blockchain.createTransaction at wall-clock time t when it returns a
\* transaction, the unspent outputs of the sender listed in order
CreateTransaction(u, fromAddress, toAddress, amount, order, t) ==
    LET n == SelectedCount(u, order, amount)
        change == SumListed(u, order, n) - amount
    IN Transaction([i \in 1..n |-> TxInput(order[i][1], order[i][2])],
                   IF change > 0
                   THEN <<TxOutput(toAddress, amount), TxOutput(fromAddress, change)>>
                   ELSE <<TxOutput(toAddress, amount)>>,
                   t)

\* Blockchain.createTransaction at wall-clock time t: the transactions it
\* may return, none when it returns null
CreatedTransactions(u, fromAddress, toAddress, amount, t) ==
    IF GetUTXOsForAddress(u, fromAddress) = {} THEN {}
    ELSE IF GetBalance(u, fromAddress) < amount THEN {}
    ELSE {CreateTransaction(u, fromAddress, toAddress, amount, order, t) :
            order \in ListingOrders(u, fromAddress)}

\* the try block of Blockchain.considerChainReorganization when it throws
\* after done blocks of the alternative chain were applied: what it leaves
Interrupted(bl, u, p, mp, alternativeChain, forkPoint, done) ==
    Reorganize(bl, u, p, mp, SubSeq(alternativeChain, 1, forkPoint + 1 + done),
               forkPoint)

\* a catch block that puts the chain back and leaves the unspent set as the
\* interrupted loop left it
RollBackChainOnly(originalChain, left) ==
    Outcome(FALSE, <<>>, originalChain, left.utxos, left.pool, left.mempool)

\* the catch block of Blockchain.considerChainReorganization
RollBack(originalChain, left) ==
    Outcome(FALSE, <<>>, originalChain, RebuildUTXOSet(originalChain),
            left.pool, left.mempool)

\* the numbers of blocks that may have been applied when an exception
\* leaves the try block
ThrowPoints(bl, alternativeChain) ==
    IF NotLonger(bl, alternativeChain) \/ ~ValidateAlternativeChain(bl, alternativeChain)
    THEN {}
    ELSE 0..(Len(alternativeChain) - FindForkPoint(bl, alternativeChain) - 2)

\* Blockchain.considerChainReorganization when an exception leaves its try
\* block after done blocks were applied
ConsiderChainReorganizationThrown(bl, u, p, mp, alternativeChain, done) ==
    RollBack(bl, Interrupted(bl, u, p, mp, alternativeChain,
                             FindForkPoint(bl, alternativeChain), done))

\* --------------------------------------------------- BlockchainStorage
\* The tables blocks, transactions and transaction_outputs, each a sequence
\* of rows in the order of insertion.  A transaction row names its block by
\* the hash of the block row.
EmptyStore == [blockRows |-> <<>>, txRows |-> <<>>, outputRows |-> <<>>]

NoTx == <<>>

\* saveBlockStmt: INSERT OR REPLACE INTO blocks (block_index and hash unique)
InsertBlockRow(db, block) ==
    [db EXCEPT !.blockRows =
        Append(SelectSeq(@, LAMBDA r : r.index # block.index /\ r.hash # block.hash),
               [index |-> block.index, timestamp |-> block.timestamp,
                previousHash |-> block.previousHash, hash |-> block.hash,
                nonce |-> block.nonce, difficulty |-> block.difficulty,
                merkleRoot |-> block.merkleRoot])]

\* saveUTXOStmt: INSERT OR REPLACE INTO transaction_outputs, unspent
RECURSIVE InsertOutputRows(_, _, _)
InsertOutputRows(db, tx, i) ==
    IF i > Len(tx.outputs) THEN db
    ELSE InsertOutputRows(
             [db EXCEPT !.outputRows =
                 Append(SelectSeq(@, LAMBDA r : ~(r.txId = tx.id /\ r.outputIndex = i - 1)),
                        [txId |-> tx.id, outputIndex |-> i - 1,
                         address |-> tx.outputs[i].address,
                         amount |-> tx.outputs[i].amount,
                         spent |-> FALSE, spentInTx |-> NoTx])],
             tx, i + 1)

\* saveTransactionStmt: INSERT OR REPLACE INTO transactions, then the rows
\* of the outputs, for the transactions of a block from position txIndex on
RECURSIVE InsertTransactionRows(_, _, _)
InsertTransactionRows(db, block, txIndex) ==
    IF txIndex > Len(block.transactions) THEN db
    ELSE LET tx == block.transactions[txIndex]
             withTx == [db EXCEPT !.txRows =
                           Append(SelectSeq(@, LAMBDA r : r.id # tx.id),
                                  [id |-> tx.id, blockHash |-> block.hash,
                                   timestamp |-> tx.timestamp,
                                   txOrder |-> txIndex - 1])]
         IN InsertTransactionRows(InsertOutputRows(withTx, tx, 1), block,
                                  txIndex + 1)

\* updateUTXOStmt: UPDATE transaction_outputs SET spent, spent_in_tx
UpdateSpent(db, txId, outputIndex, spentInTx) ==
    [db EXCEPT !.outputRows =
        [n \in 1..Len(@) |->
            IF @[n].txId = txId /\ @[n].outputIndex = outputIndex
            THEN [@[n] EXCEPT !.spent = TRUE, !.spentInTx = spentInTx]
            ELSE @[n]]]

\* BlockchainStorage.markUTXOSpent
MarkUTXOSpent(db, txId, outputIndex, spentInTx) ==
    UpdateSpent(db, txId, outputIndex, spentInTx)

RECURSIVE MarkInputsSpent(_, _, _)
MarkInputsSpent(db, tx, i) ==
    IF i > Len(tx.inputs) THEN db
    ELSE MarkInputsSpent(MarkUTXOSpent(db, tx.inputs[i].txId,
                                       tx.inputs[i].outputIndex, tx.id),
                         tx, i + 1)

\* the calls of markUTXOSpent that Blockchain.updateUTXOSet makes for the
\* transactions of a list
RECURSIVE MarkTransactionsSpent(_, _)
MarkTransactionsSpent(db, txs) ==
    IF txs = <<>> THEN db
    ELSE MarkTransactionsSpent(MarkInputsSpent(db, Head(txs), 1), Tail(txs))

\* the calls of markUTXOSpent that Blockchain.updateUTXOSet makes for the
\* blocks of a list
RECURSIVE MarkBlocksSpent(_, _)
MarkBlocksSpent(db, bl) ==
    IF bl = <<>> THEN db
    ELSE MarkBlocksSpent(MarkTransactionsSpent(db, Head(bl).transactions), Tail(bl))

\* BlockchainStorage.saveBlock when its database transaction commits
SaveBlock(db, block) ==
    MarkTransactionsSpent(InsertTransactionRows(InsertBlockRow(db, block), block, 1),
                          block.transactions)

\* keyed rows in ascending order of their keys (ORDER BY ... ASC)
RECURSIVE AscendingKeyed(_)
AscendingKeyed(keyed) ==
    IF keyed = <<>> THEN <<>>
    ELSE LET least == CHOOSE n \in 1..Len(keyed) :
                          /\ \A m \in 1..Len(keyed) : keyed[n].key <= keyed[m].key
                          /\ \A m \in 1..(n - 1) : keyed[n].key < keyed[m].key
         IN <<keyed[least].row>>
            \o AscendingKeyed(SubSeq(keyed, 1, least - 1)
                              \o SubSeq(keyed, least + 1, Len(keyed)))

\* ORDER BY output_index ASC
ByOutputIndex(rows) ==
    AscendingKeyed([n \in 1..Len(rows) |->
                       [key |-> rows[n].outputIndex, row |-> rows[n]]])

\* ORDER BY t.tx_order ASC
ByTxOrder(rows) ==
    AscendingKeyed([n \in 1..Len(rows) |->
                       [key |-> rows[n].txOrder, row |-> rows[n]]])

\* ORDER BY block_index ASC
ByBlockIndex(rows) ==
    AscendingKeyed([n \in 1..Len(rows) |->
                       [key |-> rows[n].index, row |-> rows[n]]])

\* BlockchainStorage.reconstructTransaction: the transaction rebuilt from
\* the rows, in a sequence that is empty when the rebuilt id differs
ReconstructTransaction(db, txRow) ==
    LET inputRows == SelectSeq(db.outputRows, LAMBDA r : r.spentInTx = txRow.id)
        outputRows == ByOutputIndex(SelectSeq(db.outputRows,
                                              LAMBDA r : r.txId = txRow.id))
        transaction ==
            Transaction([n \in 1..Len(inputRows) |->
                            TxInput(inputRows[n].txId, inputRows[n].outputIndex)],
                        [n \in 1..Len(outputRows) |->
                            TxOutput(outputRows[n].address, outputRows[n].amount)],
                        txRow.timestamp)
    IN IF transaction.id # txRow.id THEN <<>> ELSE <<transaction>>

RECURSIVE ReconstructTransactions(_, _)
ReconstructTransactions(db, txRows) ==
    IF txRows = <<>> THEN <<>>
    ELSE ReconstructTransaction(db, Head(txRows))
         \o ReconstructTransactions(db, Tail(txRows))

\* the block that BlockchainStorage.loadBlocks builds from a row
LoadBlock(db, row) ==
    Block(row.index,
          ReconstructTransactions(
              db, ByTxOrder(SelectSeq(db.txRows, LAMBDA r : r.blockHash = row.hash))),
          row.previousHash, row.nonce, row.difficulty, row.timestamp)

\* BlockchainStorage.loadBlocks: the blocks in ascending order of index,
\* none when a rebuilt block does not have the hash of its row
LoadBlocks(db) ==
    LET rows == ByBlockIndex(db.blockRows)
        loaded == [n \in 1..Len(rows) |-> LoadBlock(db, rows[n])]
    IN IF \E n \in 1..Len(rows) : loaded[n].hash # rows[n].hash THEN <<>>
       ELSE loaded

\* BlockchainStorage.loadUTXOs and Blockchain.reconstructUTXOSetFromDatabase
RECURSIVE AddLoadedUTXOs(_, _)
AddLoadedUTXOs(u, rows) ==
    IF rows = <<>> THEN u
    ELSE AddLoadedUTXOs(AddUTXO(u, Head(rows).txId, Head(rows).outputIndex,
                                TxOutput(Head(rows).address, Head(rows).amount)),
                        Tail(rows))

ReconstructUTXOSetFromDatabase(db) ==
    AddLoadedUTXOs(EmptyUtxos, SelectSeq(db.outputRows, LAMBDA r : ~r.spent))

\* Blockchain.createGenesisBlock at wall-clock time t: the ledger and the
\* tables it leaves
CreateGenesisBlock(db, t) ==
    [blocks |-> <<CreateGenesis(t)>>,
     utxos |-> UpdateUTXOSet(EmptyUtxos, CreateGenesis(t)),
     stored |-> SaveBlock(db, CreateGenesis(t))]

\* Blockchain.initializeChain at wall-clock time t
InitializeChain(db, t) ==
    LET loadedBlocks == LoadBlocks(db)
    IN IF Len(loadedBlocks) > 0
       THEN IF ~ValidateChain(loadedBlocks) THEN CreateGenesisBlock(db, t)
            ELSE [blocks |-> loadedBlocks,
                  utxos |-> ReconstructUTXOSetFromDatabase(db),
                  stored |-> db]
       ELSE CreateGenesisBlock(db, t)

\* ---------------------------------------------------------- the callers
\* What callers hand to the ledger.  Transactions and blocks are built with
\* the constructors; blocks from outside have had their nonce searched.

ChainTransactions(bl) == UNION {Range(bl[i].transactions) : i \in 1..Len(bl)}

\* the outputs referenced by the inputs of the transactions of a chain
ReferencedKeys(bl) ==
    UNION {{InputKey(tx.inputs[i]) : i \in 1..Len(tx.inputs)} :
           tx \in ChainTransactions(bl)}

\* the reward an outside miner claims at time t
Reward(t) == CreateCoinbase("alice", BlockReward, t)

RewardKey(t) == UtxoKey(Reward(t).id, 0)

KeyInput(k) == TxInput(k[1], k[2])

Spend(k, to, amount, t) ==
    Transaction(<<KeyInput(k)>>, <<TxOutput(to, amount)>>, t)

\* the first output of the newest block, the one callers spend, if it is
\* unspent and carries value
Spendable(bl, u) ==
    {k \in DOMAIN u :
        /\ Len(Last(bl).transactions) > 0
        /\ k = UtxoKey(Last(bl).transactions[1].id, 0)
        /\ u[k].amount > 0}

Payments(bl, u, t) == {Spend(k, "bob", u[k].amount, t) : k \in Spendable(bl, u)}

Overspends(bl, u, t) ==
    {Spend(k, "bob", u[k].amount + 10, t) : k \in Spendable(bl, u)}

DoubleInputs(bl, u, t) ==
    {Transaction(<<KeyInput(k), KeyInput(k)>>,
                 <<TxOutput("bob", u[k].amount)>>, t) : k \in Spendable(bl, u)}

\* payments of outputs that are spent already
StaleSpends(bl, u, t) ==
    {Spend(k, "bob", BlockReward, t) : k \in ReferencedKeys(bl) \ DOMAIN u}

\* a payment of the reward that a block stamped ts will create
EarlySpend(ts, t) == Spend(RewardKey(ts), "bob", BlockReward, t)

\* transactions that fail Transaction.isValid
Malformed(bl, u, t) ==
    {Spend(k, "bob", 0, t) : k \in Spendable(bl, u)}
    \cup {[Reward(t) EXCEPT !.id = ZeroLeaf], Transaction(<<>>, <<>>, t)}

\* the first transaction of the newest block, submitted once more
Replays(bl) ==
    {Last(bl).transactions[i] : i \in 1..Min(1, Len(Last(bl).transactions))}

\* the transactions a caller may pass to addTransaction at time t
CandidateTransactions(bl, u, t) ==
    Payments(bl, u, t) \cup Overspends(bl, u, t) \cup DoubleInputs(bl, u, t)
    \cup StaleSpends(bl, u, t) \cup Malformed(bl, u, t) \cup Replays(bl)

\* a block built on prev by another miner, its nonce searched
ExternalBlock(prev, txs, difficulty, timestamp) ==
    PowMineBlock(Block(prev.index + 1, txs, prev.hash, 0, difficulty,
                       timestamp)).block

\* the transaction lists of blocks from outside, stamped ts
CandidateLists(bl, u, p, ts) ==
    {<<Reward(ts)>>, <<Reward(ts)>> \o p, <<EarlySpend(ts + 1, ts)>>}
    \cup {<<Spend(k, "alice", u[k].amount, ts), Spend(k, "bob", u[k].amount, ts)>> :
            k \in Spendable(bl, u)}

\* blocks on prev that miss one admission stage: a hash that is not the one
\* of the header, a transaction appended after construction, a wrong index,
\* a wrong previous hash, the time stamp of prev, a nonce that was not searched
DefectiveBlocks(prev, ts) ==
    LET txs == <<Reward(ts)>>
        good == ExternalBlock(prev, txs, 1, ts)
    IN {[good EXCEPT !.hash = CalculateHash([good EXCEPT !.timestamp = ts + 4])],
        [good EXCEPT !.transactions = Append(txs, Reward(ts + 1))],
        PowMineBlock(Block(prev.index + 2, txs, prev.hash, 0, 1, ts)).block,
        PowMineBlock(Block(prev.index + 1, txs, ZeroHash, 0, 1, ts)).block,
        ExternalBlock(prev, <<Reward(prev.timestamp)>>, 1, prev.timestamp)}
    \cup {b \in {Block(prev.index + 1, txs, prev.hash, n, 1, ts) : n \in 0..1} :
            ~HasValidProofOfWork(b)}

\* a block stamped more than two hours after the clock
FutureBlock(prev, t) ==
    ExternalBlock(prev, <<Reward(t + TwoHours + 1)>>, 1, t + TwoHours + 1)

\* the time stamp of a block from outside: the miner's clock, after prev
BlockTime(prev, t) == Max(t, prev.timestamp + 1)

\* the blocks a caller may pass to addBlock at time t
CandidateBlocks(bl, u, p, t) ==
    {ExternalBlock(Last(bl), txs, 1, BlockTime(Last(bl), t)) :
        txs \in CandidateLists(bl, u, p, BlockTime(Last(bl), t))}
    \cup DefectiveBlocks(Last(bl), BlockTime(Last(bl), t))
    \cup {FutureBlock(Last(bl), t)}

\* a reward-only block on prev, one millisecond later
PlainBlock(prev) ==
    ExternalBlock(prev, <<Reward(prev.timestamp + 1)>>, 1, prev.timestamp + 1)

RECURSIVE PlainExtend(_, _)
PlainExtend(chain, n) ==
    IF n = 0 THEN chain
    ELSE PlainExtend(Append(chain, PlainBlock(Last(chain))), n - 1)

\* the blocks an alternative chain may hold apart from reward-only blocks
SpecialBlocks(prev, bl, u, p, t) ==
    {ExternalBlock(prev, txs, 1, prev.timestamp + 1) :
        txs \in CandidateLists(bl, u, p, prev.timestamp + 1)
                \ {<<Reward(prev.timestamp + 1)>>}}
    \cup DefectiveBlocks(prev, prev.timestamp + 1)

\* the genesis block of another ledger
ForeignGenesis(bl) == CreateGenesis(bl[1].timestamp + 1)

\* chains of reward-only blocks on a prefix of the own chain or on another
\* genesis, of any length up to MaxChain; the empty chain
PlainChains(bl) ==
    {<<>>}
    \cup {PlainExtend(<<ForeignGenesis(bl)>>, n) : n \in 0..(MaxChain - 1)}
    \cup UNION {{PlainExtend(SubSeq(bl, 1, k), n) : n \in 0..(MaxChain - k)} :
                k \in 1..Len(bl)}

\* longer chains on a prefix of the own chain that hold one other block
\* among reward-only blocks
SpecialChains(bl, u, p, t) ==
    UNION {UNION {UNION {
        {PlainExtend(Append(PlainExtend(SubSeq(bl, 1, k), n1), s), n2) :
            s \in SpecialBlocks(Last(PlainExtend(SubSeq(bl, 1, k), n1)),
                                bl, u, p, t)} :
        n2 \in {n \in 0..(MaxChain - k - n1 - 1) : k + n1 + 1 + n > Len(bl)}} :
        n1 \in 0..(MaxChain - k - 1)} :
        k \in 1..Len(bl)}

\* the chains a caller may pass to considerChainReorganization at time t;
\* their first block is a genesis block as Block.createGenesis builds it (the
\* header fields of a Block are readonly and set by its constructor)
AlternativeChains(bl, u, p, t) == PlainChains(bl) \cup SpecialChains(bl, u, p, t)

\* the amounts a caller may pass to tamperBlockData: the default, one that
\* no transaction may carry, the amount the callers' payments carry
TamperAmounts == {DefaultTamperedAmount, 0, BlockReward}

\* the chains that tampering with the block at blockIndex may leave
Tamperings(bl, blockIndex) ==
    {DemonstrateTampering(bl, blockIndex)}
    \cup {TamperBlockData(bl, blockIndex, a) : a \in TamperAmounts}

\* ----------------------------------------------------------- the system
Install(outcome) ==
    /\ blocks' = outcome.blocks
    /\ utxos' = outcome.utxos
    /\ pool' = outcome.pool
    /\ mempool' = outcome.mempool

Genesis == CreateGenesis(1)

\* no call of ProofOfWork.mineBlock is followed
NoSearch ==
    [block |-> Genesis, attempts |-> 0, lastProgressUpdate |-> 1,
     reporter |-> "none", stopAsked |-> FALSE, afterStop |-> 0,
     returned |-> <<NoBlock>>, submitted |-> TRUE]

\* no getter was called
NoListing == [getter |-> "none", holds |-> <<>>, calls |-> 0]

\* no call of calculateNextDifficulty is followed
NoAdjustment ==
    [recentBlocks |-> <<>>, currentDifficulty |-> GenesisDifficulty,
     returned |-> <<>>]

\* new Blockchain(config) on an empty database, at time 1
Init ==
    /\ now = 1
    /\ blocks = <<Genesis>>
    /\ utxos = UpdateUTXOSet(EmptyUtxos, Genesis)
    /\ pool = <<>>
    /\ mempool = {}
    /\ mining = <<>>
    /\ stored = SaveBlock(EmptyStore, Genesis)
    /\ adjustment = NoAdjustment
    /\ search = NoSearch
    /\ handed = NoListing

\* the wall clock advances
Tick ==
    /\ now < MaxTime
    /\ now' = now + 1
    /\ UNCHANGED <<blocks, utxos, pool, mempool, mining, stored, adjustment, search, handed>>

\* a call of Blockchain.addTransaction
DoAddTransaction ==
    \E tx \in CandidateTransactions(blocks, utxos, now) :
        LET outcome == AddTransaction(blocks, utxos, pool, mempool, tx)
        IN /\ Len(outcome.pool) <= MaxPool
           /\ Install(outcome)
           /\ UNCHANGED <<mining, now, stored, adjustment, search, handed>>

\* BlockchainStorage.saveBlock is reached when the five stages pass, and it
\* may fail
SaveResults(bl, u, block, t) ==
    IF AddBlockStages(bl, u, block, t) THEN BOOLEAN ELSE {TRUE}

MinedSaveResults(bl, u, candidate, t) ==
    IF PowMineBlock(candidate).found
    THEN SaveResults(bl, u, PowMineBlock(candidate).block, t)
    ELSE {TRUE}

\* a call of Blockchain.addBlock
DoAddBlock ==
    \E block \in CandidateBlocks(blocks, utxos, pool, now) :
        \E saveOk \in SaveResults(blocks, utxos, block, now) :
            LET outcome == AddBlock(blocks, utxos, pool, mempool, block, saveOk, now)
            IN /\ Len(outcome.blocks) <= MaxChain
               /\ Install(outcome)
               /\ UNCHANGED <<mining, now, stored, adjustment, search, handed>>

\* a call of Blockchain.mineBlock runs up to its await
MineBegin ==
    \E minerAddress \in Miners :
        /\ Len(mining) < MaxMiners
        /\ Len(blocks) < MaxChain
        /\ mining' = Append(mining, MiningCandidate(blocks, pool, minerAddress, now))
        /\ UNCHANGED <<blocks, utxos, pool, mempool, now, stored, adjustment, search, handed>>

\* a call of Blockchain.mineBlock resumes after its await and returns
MineSubmit ==
    \E i \in 1..Len(mining) :
      \E saveOk \in MinedSaveResults(blocks, utxos, mining[i], now) :
        LET outcome == SubmitMined(blocks, utxos, pool, mempool, mining[i],
                                   saveOk, now)
        IN /\ Len(outcome.blocks) <= MaxChain
           /\ Install(outcome)
           /\ mining' = SubSeq(mining, 1, i - 1) \o SubSeq(mining, i + 1, Len(mining))
           /\ UNCHANGED <<now, stored, adjustment, search, handed>>

\* a call of Blockchain.considerChainReorganization
DoReorganize ==
    \E alternativeChain \in AlternativeChains(blocks, utxos, pool, now) :
        LET outcome == ConsiderChainReorganization(blocks, utxos, pool, mempool,
                                                   alternativeChain)
        IN /\ Install(outcome)
           /\ UNCHANGED <<mining, now, stored, adjustment, search, handed>>

\* a call of Blockchain.considerChainReorganization during which an
\* exception leaves the try block
DoReorganizeThrown ==
    \E alternativeChain \in AlternativeChains(blocks, utxos, pool, now) :
        \E done \in ThrowPoints(blocks, alternativeChain) :
            LET outcome == ConsiderChainReorganizationThrown(
                               blocks, utxos, pool, mempool, alternativeChain, done)
            IN /\ Install(outcome)
               /\ UNCHANGED <<mining, now, stored, adjustment, search, handed>>

Next ==
    \/ Tick
    \/ DoAddTransaction
    \/ DoAddBlock
    \/ MineBegin
    \/ MineSubmit
    \/ DoReorganize
    \/ DoReorganizeThrown

Spec == Init /\ [][Next]_vars

\* ------------------------------------------------- the race of the miners
\* Several calls of mineBlock are in flight at once, for two miners, while
\* blocks of other miners arrive through addBlock.
Racers == {"alice", "carol"}

\* a call of Blockchain.mineBlock runs up to its await while others wait
RaceMineBegin ==
    \E minerAddress \in Racers :
        /\ Len(mining) < MaxRacers
        /\ Len(blocks) < MaxChain
        /\ mining' = Append(mining, MiningCandidate(blocks, pool, minerAddress, now))
        /\ UNCHANGED <<blocks, utxos, pool, mempool, now, stored, adjustment, search, handed>>

\* a call of Blockchain.addBlock with a reward-only block of another miner
RaceAddBlock ==
    LET block == ExternalBlock(Last(blocks), <<Reward(BlockTime(Last(blocks), now))>>,
                               1, BlockTime(Last(blocks), now))
        outcome == AddBlock(blocks, utxos, pool, mempool, block, TRUE, now)
    IN /\ Len(outcome.blocks) <= MaxChain
       /\ Install(outcome)
       /\ UNCHANGED <<mining, now, stored, adjustment, search, handed>>

RaceNext ==
    \/ Tick
    \/ RaceMineBegin
    \/ MineSubmit
    \/ RaceAddBlock

RaceSpec == Init /\ [][RaceNext]_vars

\* --------------------------------------------------- the miners in turn
\* Calls of mineBlock follow one another on a fresh ledger; the wall clock
\* may advance between the two readings a call makes.
MintTick ==
    /\ now < MaxMintTime
    /\ now' = now + 1
    /\ UNCHANGED <<blocks, utxos, pool, mempool, mining, stored, adjustment, search, handed>>

\* a call of Blockchain.mineBlock runs up to its await
MintBegin ==
    \E minerAddress \in Racers, t \in now..Min(now + 1, MaxMintTime) :
        /\ mining = <<>>
        /\ Len(blocks) < MaxChain
        /\ mining' = <<MiningCandidateAt(blocks, pool, minerAddress, now, t)>>
        /\ now' = t
        /\ UNCHANGED <<blocks, utxos, pool, mempool, stored, adjustment, search, handed>>

MintNext ==
    \/ MintTick
    \/ MintBegin
    \/ MineSubmit

MintSpec == Init /\ [][MintNext]_vars

\* ------------------------------------------------ the ledger on its disk
\* Blocks are mined, added and adopted while the tables of the database are
\* followed; the ledger is closed and constructed again on its database.
\* No transaction is submitted, so the table of the mempool stays empty.

\* the tables after Blockchain.addBlock has returned: saveBlock, then the
\* calls of markUTXOSpent of updateUTXOSet
StoredAfterAddBlock(db, block, ok) ==
    IF ok THEN MarkTransactionsSpent(SaveBlock(db, block), block.transactions)
    ELSE db

\* the tables after Blockchain.considerChainReorganization has returned:
\* the calls of markUTXOSpent of rebuildUTXOSet and of the apply loop
StoredAfterReorganization(db, outcome) ==
    IF outcome.ok THEN MarkBlocksSpent(db, outcome.blocks) ELSE db

\* a call of Blockchain.addBlock with a reward-only block of another miner
PersistAddBlock ==
    LET block == ExternalBlock(Last(blocks), <<Reward(BlockTime(Last(blocks), now))>>,
                               1, BlockTime(Last(blocks), now))
    IN \E saveOk \in SaveResults(blocks, utxos, block, now) :
        LET outcome == AddBlock(blocks, utxos, pool, mempool, block, saveOk, now)
        IN /\ Len(outcome.blocks) <= MaxChain
           /\ Install(outcome)
           /\ stored' = StoredAfterAddBlock(stored, block, outcome.ok)
           /\ UNCHANGED <<mining, now, adjustment, search, handed>>

\* a call of Blockchain.mineBlock resumes after its await and returns
PersistMineSubmit ==
    \E i \in 1..Len(mining) :
      \E saveOk \in MinedSaveResults(blocks, utxos, mining[i], now) :
        LET outcome == SubmitMined(blocks, utxos, pool, mempool, mining[i],
                                   saveOk, now)
        IN /\ Len(outcome.blocks) <= MaxChain
           /\ Install(outcome)
           /\ stored' = StoredAfterAddBlock(stored, PowMineBlock(mining[i]).block,
                                            outcome.ok)
           /\ mining' = SubSeq(mining, 1, i - 1) \o SubSeq(mining, i + 1, Len(mining))
           /\ UNCHANGED <<now, adjustment, search, handed>>

\* a call of Blockchain.considerChainReorganization with a chain of
\* reward-only blocks
PersistReorganize ==
    \E alternativeChain \in PlainChains(blocks) :
        LET outcome == ConsiderChainReorganization(blocks, utxos, pool, mempool,
                                                   alternativeChain)
        IN /\ Install(outcome)
           /\ stored' = StoredAfterReorganization(stored, outcome)
           /\ UNCHANGED <<mining, now, adjustment, search, handed>>

\* Blockchain.close, then new Blockchain(config, dbPath) on the same file
Reopen ==
    LET opened == InitializeChain(stored, now)
    IN /\ mining = <<>>
       /\ blocks' = opened.blocks
       /\ utxos' = opened.utxos
       /\ stored' = opened.stored
       /\ pool' = <<>>
       /\ mempool' = {}
       /\ UNCHANGED <<mining, now, adjustment, search, handed>>

PersistNext ==
    \/ Tick
    \/ MineBegin
    \/ PersistMineSubmit
    \/ PersistAddBlock
    \/ PersistReorganize
    \/ Reopen

PersistSpec == Init /\ [][PersistNext]_vars

\* ------------------------------------------------- the miners who pay
\* The miners mine in turn and pay out of their rewards with
\* createTransaction and addTransaction.
Payers == {"alice"}

Payees == {"bob"}

PayAmounts == {30, 70}

\* a call of Blockchain.createTransaction whose result, if there is one, is
\* passed to Blockchain.addTransaction
DoCreateTransaction ==
    \E fromAddress \in Payers, toAddress \in Payees, amount \in PayAmounts :
        \E tx \in CreatedTransactions(utxos, fromAddress, toAddress, amount, now) :
            LET outcome == AddTransaction(blocks, utxos, pool, mempool, tx)
            IN /\ Len(outcome.pool) <= MaxPool
               /\ Install(outcome)
               /\ UNCHANGED <<mining, now, stored, adjustment, search, handed>>

PayNext ==
    \/ MintTick
    \/ MintBegin
    \/ MineSubmit
    \/ DoCreateTransaction

PaySpec == Init /\ [][PayNext]_vars

\* ------------------------------------- the difficulty adjustment on its own
\* calculateNextDifficulty is called with a run of blocks built one after the
\* other, as in the tests of ProofOfWork: consecutive indexes, each block a
\* spacing later than the one before

\* the index of the first block of the run
FirstIndexes == {0, 1, 4}

\* the time between two blocks of the run: a second, between half and four
\* fifths of the target, the target, and far above the target
Spacings == {OneSecond, (TargetBlockTime \div 2) + OneSecond, TargetBlockTime,
             5 * TargetBlockTime}

\* the next block of the run
RecentBlock(recentBlocks, index, spacing, difficulty) ==
    IF recentBlocks = <<>>
    THEN Block(index, <<CreateCoinbase("m", 1, 1)>>, ZeroHash, 0, difficulty, 1)
    ELSE Block(Last(recentBlocks).index + 1, <<CreateCoinbase("m", 1, 1)>>,
               Last(recentBlocks).hash, 0, difficulty,
               Last(recentBlocks).timestamp + spacing)

\* one more block joins the run
AdjustExtend ==
    /\ adjustment.returned = <<>>
    /\ Len(adjustment.recentBlocks) < MaxRecent
    /\ \E index \in FirstIndexes, spacing \in Spacings :
           /\ adjustment.recentBlocks = <<>> => spacing = OneSecond
           /\ adjustment.recentBlocks # <<>> => index = 0
           /\ adjustment' =
                  [adjustment EXCEPT !.recentBlocks =
                      Append(@, RecentBlock(@, index, spacing,
                                            adjustment.currentDifficulty))]
    /\ UNCHANGED <<blocks, utxos, pool, mempool, mining, now, stored, search, handed>>

\* a call of ProofOfWork.calculateNextDifficulty
AdjustCall ==
    /\ adjustment.returned = <<>>
    /\ adjustment' =
           [adjustment EXCEPT !.returned =
               <<CalculateNextDifficulty(adjustment.recentBlocks,
                                         adjustment.currentDifficulty)>>]
    /\ UNCHANGED <<blocks, utxos, pool, mempool, mining, now, stored, search, handed>>

AdjustInit ==
    /\ now = 1
    /\ blocks = <<Genesis>>
    /\ utxos = UpdateUTXOSet(EmptyUtxos, Genesis)
    /\ pool = <<>>
    /\ mempool = {}
    /\ mining = <<>>
    /\ stored = SaveBlock(EmptyStore, Genesis)
    /\ search = NoSearch
    /\ handed = NoListing
    /\ \E currentDifficulty \in 0..MaxDifficulty :
           adjustment = [recentBlocks |-> <<>>,
                         currentDifficulty |-> currentDifficulty,
                         returned |-> <<>>]

AdjustNext ==
    \/ AdjustExtend
    \/ AdjustCall

AdjustSpec == AdjustInit /\ [][AdjustNext]_vars

\* ---------------------------------------------- the nonce search on its own
\* ProofOfWork.mineBlock is followed pass by pass of its loop, for a
\* candidate on the genesis block; the caller then does with the result what
\* Blockchain.mineBlock does

\* the difficulties of the candidates: two that some nonce meets, one that no
\* nonce meets
SearchDifficulties == {1, 2, 3}

\* who is told of the progress: nobody, the reporter of
\* ProofOfWork.createProgressReporter, a callback of the caller that returns
\* false once the caller has asked to stop
Reporters == {"none", "progress", "caller"}

\* what onProgress returns if it is called
Continue(s) == s.reporter = "caller" => ~s.stopAsked

\* no nonce from that of candidate on meets the difficulty: the zeros of a
\* digest repeat every four nonces
FailsAlways(candidate) ==
    \A n \in 0..3 :
        ~HasValidProofOfWork(
            Block(candidate.index, candidate.transactions, candidate.previousHash,
                  candidate.nonce + n, candidate.difficulty, candidate.timestamp))

\* the search for candidate after attempts passes that all failed, at time t
SearchAfter(candidate, attempts, reporter, t) ==
    [block |-> Block(candidate.index, candidate.transactions,
                     candidate.previousHash, candidate.nonce + attempts,
                     candidate.difficulty, candidate.timestamp),
     attempts |-> attempts, lastProgressUpdate |-> t, reporter |-> reporter,
     stopAsked |-> FALSE, afterStop |-> 0, returned |-> <<>>,
     submitted |-> FALSE]

\* the wall clock advances by half a progress interval
SearchTick ==
    /\ now < 2 + MaxSearchTicks * (ProgressInterval \div 2)
    /\ now' = now + (ProgressInterval \div 2)
    /\ UNCHANGED <<blocks, utxos, pool, mempool, mining, stored, adjustment, search, handed>>

\* the caller asks the search to stop
AskToStop ==
    /\ search.returned = <<>>
    /\ search.reporter = "caller"
    /\ ~search.stopAsked
    /\ search' = [search EXCEPT !.stopAsked = TRUE]
    /\ UNCHANGED <<blocks, utxos, pool, mempool, mining, now, stored, adjustment, handed>>

\* one pass of the loop of ProofOfWork.mineBlock
SearchAttempt ==
    /\ search.returned = <<>>
    /\ search' = [SearchPass(search, Continue(search), now) EXCEPT
                     !.afterStop = IF search.stopAsked THEN @ + 1 ELSE @]
    /\ UNCHANGED <<blocks, utxos, pool, mempool, mining, now, stored, adjustment, handed>>

\* Blockchain.mineBlock after the await: addBlock for a block, nothing for
\* null
SearchSubmit ==
    /\ search.returned # <<>>
    /\ ~search.submitted
    /\ \E saveOk \in BOOLEAN :
          LET mined == search.returned[1]
              outcome == IF mined.found
                         THEN AddBlock(blocks, utxos, pool, mempool, mined.block,
                                       saveOk, now)
                         ELSE Outcome(FALSE, <<>>, blocks, utxos, pool, mempool)
          IN Install(outcome)
    /\ search' = [search EXCEPT !.submitted = TRUE]
    /\ UNCHANGED <<mining, now, stored, adjustment, handed>>

\* a ledger at time 2 or 3 and a search: one that starts, for a candidate
\* that some nonce meets, or one that is taken up when all but SearchWindow
\* of the attempts that the safety limit allows have failed, for a candidate
\* that no nonce meets
SearchInit ==
    /\ now \in {2, 3}
    /\ blocks = <<Genesis>>
    /\ utxos = UpdateUTXOSet(EmptyUtxos, Genesis)
    /\ pool = <<>>
    /\ mempool = {}
    /\ mining = <<>>
    /\ stored = SaveBlock(EmptyStore, Genesis)
    /\ handed = NoListing
    /\ adjustment = NoAdjustment
    /\ \E difficulty \in SearchDifficulties, reporter \in Reporters,
          attempts \in {0} \cup ((SafetyLimit - SearchWindow)..SafetyLimit) :
          LET candidate == CreateCandidate(
                               Genesis.index + 1,
                               <<CreateCoinbase("alice", BlockReward, now)>>,
                               Genesis.hash, difficulty, now)
          IN /\ attempts > 0 => FailsAlways(candidate)
             /\ attempts = 0 => ~FailsAlways(candidate)
             /\ search = SearchAfter(candidate, attempts, reporter, now)

SearchNext ==
    \/ SearchTick
    \/ AskToStop
    \/ SearchAttempt
    \/ SearchSubmit

SearchSpec == SearchInit /\ [][SearchNext]_vars

\* the loop of ProofOfWork.mineBlock runs on as long as it has not returned
SearchLiveSpec == SearchSpec /\ WF_vars(SearchAttempt)

\* ------------------------------------------------------- the properties
\* the places (block, transaction, input) of the inputs of a chain
InputPlaces(bl) ==
    UNION {UNION {{<<i, j, k>> : k \in 1..Len(bl[i].transactions[j].inputs)} :
                  j \in 1..Len(bl[i].transactions)} :
           i \in 1..Len(bl)}

PlaceKey(bl, place) ==
    InputKey(bl[place[1]].transactions[place[2]].inputs[place[3]])

\* tx and m are different transactions that reference a common output
SharesInput(tx, m) ==
    /\ tx.id # m.id
    /\ \E i \in 1..Len(tx.inputs), j \in 1..Len(m.inputs) :
          InputKey(tx.inputs[i]) = InputKey(m.inputs[j])

NoSharedInputs(mp) == \A a \in mp, b \in mp : ~SharesInput(a, b)

ChainTxIds(bl) == {tx.id : tx \in ChainTransactions(bl)}

LedgerUnchanged(outcome) ==
    /\ outcome.blocks = blocks
    /\ outcome.utxos = utxos
    /\ outcome.pool = pool
    /\ outcome.mempool = mempool

\* every block after the first passes the five stages of addBlock on the
\* ledger that the blocks before it produce
FullyValid(chain, t) ==
    /\ chain # <<>>
    /\ \A i \in 2..Len(chain) :
          AddBlockStages(SubSeq(chain, 1, i - 1),
                         RebuildUTXOSet(SubSeq(chain, 1, i - 1)), chain[i], t)

\* C1: in every reachable state each output coordinate (txId, outputIndex)
\* is referenced as an input at most once across all transactions of all
\* blocks of the chain, two inputs of one transaction and two transactions
\* of one block included.
NoOutputSpentTwice ==
    \A a \in InputPlaces(blocks), b \in InputPlaces(blocks) :
        a # b => PlaceKey(blocks, a) # PlaceKey(blocks, b)

\* C2: once a transaction that spends an output is in a block of the chain,
\* addTransaction of any other transaction that references the same output
\* returns isValid = false and the transaction does not enter the mempool.
SpentOutputNotAccepted ==
    \A tx \in CandidateTransactions(blocks, utxos, now) :
        (\E m \in ChainTransactions(blocks) : SharesInput(tx, m)) =>
            LET outcome == AddTransaction(blocks, utxos, pool, mempool, tx)
            IN /\ ~outcome.ok
               /\ outcome.pool = pool
               /\ outcome.mempool = mempool

SubmittedBlocks ==
    CandidateBlocks(blocks, utxos, pool, now)
    \cup {PowMineBlock(mining[i]).block :
            i \in {j \in 1..Len(mining) : PowMineBlock(mining[j]).found}}

\* C4: whenever addBlock returns false, a stage having failed or the block
\* not having been saved, the chain, the unspent set and the mempool are
\* what they were before the call.
RejectedBlockChangesNothing ==
    \A block \in SubmittedBlocks, saveOk \in BOOLEAN :
        LET outcome == AddBlock(blocks, utxos, pool, mempool, block, saveOk, now)
        IN ~outcome.ok => LedgerUnchanged(outcome)

\* a block that passes the five stages is not saved, on a ledger that holds
\* blocks and waiting transactions, while another block fails a stage
BlockRefused ==
    /\ Len(blocks) >= 2
    /\ mempool # {}
    /\ \E block \in SubmittedBlocks :
          /\ AddBlockStages(blocks, utxos, block, now)
          /\ ~AddBlock(blocks, utxos, pool, mempool, block, FALSE, now).ok
    /\ \E block \in SubmittedBlocks :
          /\ ~AddBlockStages(blocks, utxos, block, now)
          /\ ~AddBlock(blocks, utxos, pool, mempool, block, TRUE, now).ok

\* C5: in every reachable state, for every i > 0, chain[i].index =
\* chain[i-1].index + 1, chain[i].previousHash = chain[i-1].hash and
\* chain[i].timestamp > chain[i-1].timestamp.
ChainLinked ==
    \A i \in 2..Len(blocks) :
        /\ blocks[i].index = blocks[i - 1].index + 1
        /\ blocks[i].previousHash = blocks[i - 1].hash
        /\ blocks[i].timestamp > blocks[i - 1].timestamp

\* a chain of three blocks
ThreeLinked == Len(blocks) >= 3

\* C6: for every block of the chain, its hash is the hash recomputed from
\* {index, timestamp, previousHash, merkleRoot, nonce, difficulty} and its
\* merkleRoot is the Merkle root recomputed from its transactions.
BlocksSelfConsistent ==
    \A i \in 1..Len(blocks) :
        /\ blocks[i].hash = CalculateHash(blocks[i])
        /\ blocks[i].merkleRoot = CalculateMerkleRoot(blocks[i].transactions)

\* a block of several transactions was admitted
PairCommitted ==
    \E i \in 2..Len(blocks) : Len(blocks[i].transactions) >= 2

\* C7: in every reachable state no transaction id is at the same time in
\* the mempool and in a block of the chain.
MempoolDisjointFromChain ==
    /\ PoolIds(pool) \cap ChainTxIds(blocks) = {}
    /\ {m.id : m \in mempool} \cap ChainTxIds(blocks) = {}

\* C8: in every reachable state the unspent set is the one obtained from the
\* empty set by replaying every block of the chain from genesis, each
\* transaction spending its inputs and then adding its outputs.
UnspentSetIsReplay == utxos = RebuildUTXOSet(blocks)

\* three blocks, an output of which was spent
SpentAndReplayed ==
    /\ Len(blocks) >= 3
    /\ ReferencedKeys(blocks) \ DOMAIN utxos # {}
    /\ \E k \in DOMAIN utxos : utxos[k].address = "bob"

\* C9: for an alternative chain longer than the current chain that starts
\* with its genesis block and is fully valid, considerChainReorganization
\* returns true and leaves as chain the alternative chain: the same length,
\* the same block hashes in the same order.
LongerValidChainAdopted ==
    \A alt \in AlternativeChains(blocks, utxos, pool, now) :
        (/\ Len(alt) > Len(blocks)
         /\ alt[1] = blocks[1]
         /\ FullyValid(alt, now)) =>
            LET outcome == ConsiderChainReorganization(blocks, utxos, pool,
                                                       mempool, alt)
            IN /\ outcome.ok
               /\ Len(outcome.blocks) = Len(alt)
               /\ \A i \in 1..Len(alt) : outcome.blocks[i].hash = alt[i].hash

\* a longer, fully valid chain that parts from the own chain below its tip
ForkOffered ==
    \E alt \in AlternativeChains(blocks, utxos, pool, now) :
        /\ Len(alt) > Len(blocks)
        /\ alt[1] = blocks[1]
        /\ FullyValid(alt, now)
        /\ FindForkPoint(blocks, alt) < Len(blocks) - 1
        /\ ConsiderChainReorganization(blocks, utxos, pool, mempool, alt).ok

\* C10: considerChainReorganization returns false and leaves the chain, the
\* unspent set and the mempool unchanged whenever the alternative chain is
\* not longer than the current chain, is empty, or starts with another
\* genesis hash.
UnfitChainRefused ==
    \A alt \in AlternativeChains(blocks, utxos, pool, now) :
        (\/ Len(alt) <= Len(blocks)
         \/ alt = <<>>
         \/ alt[1].hash # blocks[1].hash) =>
            LET outcome == ConsiderChainReorganization(blocks, utxos, pool,
                                                       mempool, alt)
            IN ~outcome.ok /\ LedgerUnchanged(outcome)

\* the ledger holds waiting transactions and is offered another chain of the
\* length of its own, and a longer chain on another genesis block
UnfitChainsOffered ==
    /\ Len(blocks) >= 2
    /\ mempool # {}
    /\ \E alt \in AlternativeChains(blocks, utxos, pool, now) :
          /\ Len(alt) = Len(blocks)
          /\ alt # blocks
          /\ ValidateAlternativeChain(blocks, alt)
    /\ \E alt \in AlternativeChains(blocks, utxos, pool, now) :
          /\ Len(alt) > Len(blocks)
          /\ alt[1].hash # blocks[1].hash

\* C11: considerChainReorganization adopts an alternative chain only if
\* every block after genesis passes the five stages of addBlock, the fifth
\* included: every input of every transaction is spendable in the unspent
\* set that the blocks before it in that chain produce.
AdoptedChainFullyValid ==
    \A alt \in AlternativeChains(blocks, utxos, pool, now) :
        ConsiderChainReorganization(blocks, utxos, pool, mempool, alt).ok =>
            FullyValid(alt, now)

\* C12: when an exception occurs while considerChainReorganization truncates
\* the chain or applies the alternative blocks, the call returns false and
\* the chain and the unspent set are what they were before the call.
InterruptedReorganizationRestores ==
    \A alt \in AlternativeChains(blocks, utxos, pool, now) :
        \A done \in ThrowPoints(blocks, alt) :
            LET outcome == ConsiderChainReorganizationThrown(
                               blocks, utxos, pool, mempool, alt, done)
            IN /\ ~outcome.ok
               /\ outcome.blocks = blocks
               /\ outcome.utxos = utxos

\* the exception comes after blocks of the own chain were dropped and a
\* block of the alternative chain was applied that changed the unspent set
ReorganizationInterrupted ==
    \E alt \in AlternativeChains(blocks, utxos, pool, now) :
        \E done \in ThrowPoints(blocks, alt) :
            LET forkPoint == FindForkPoint(blocks, alt)
                left == Interrupted(blocks, utxos, pool, mempool, alt,
                                    forkPoint, done)
            IN /\ done >= 1
               /\ forkPoint < Len(blocks) - 1
               /\ left.blocks # blocks
               /\ left.utxos # utxos

\* C13 as stated: on a chain that validateChain accepts, after the block at
\* any index i with 0 < i < chain length, the tip included, is replaced by
\* a copy with one modified field and a recomputed hash, validateChain
\* returns false.
TamperingDetected ==
    ValidateChain(blocks) =>
        \A i \in 1..(Len(blocks) - 1) :
            \A tampered \in Tamperings(blocks, i) :
                tampered # blocks => ~ValidateChain(tampered)

\* C13 amended: on a chain that validateChain accepts, after a block that
\* has a successor is replaced by a copy with one modified field and a
\* recomputed hash, validateChain returns false; after the tip is replaced
\* so, validateChain returns what Block.isValid returns for the copy.
HistoricalTamperingDetected ==
    ValidateChain(blocks) =>
        \A i \in 1..(Len(blocks) - 1) :
            \A tampered \in Tamperings(blocks, i) :
                tampered # blocks =>
                    IF i < Len(blocks) - 1 THEN ~ValidateChain(tampered)
                    ELSE ValidateChain(tampered) = BlockIsValid(tampered[i + 1])

\* a valid chain of three blocks one of which holds a payment: the amount
\* of the payment is changed in a block that has a successor, the tip is
\* tampered with once with and once without validateChain noticing
TamperedBelowTip ==
    /\ Len(blocks) >= 3
    /\ ValidateChain(blocks)
    /\ \E i \in 1..(Len(blocks) - 2) :
          /\ TamperTargets(blocks[i + 1]) # {}
          /\ TamperBlockData(blocks, i, DefaultTamperedAmount) # blocks
          /\ ~ValidateChain(TamperBlockData(blocks, i, DefaultTamperedAmount))
    /\ \E a \in Tamperings(blocks, Len(blocks) - 1),
          b \in Tamperings(blocks, Len(blocks) - 1) :
          /\ a # blocks /\ ValidateChain(a)
          /\ b # blocks /\ ~ValidateChain(b)

\* C14: when a block at index i that has a successor has been tampered
\* with, validateChain flags index i, and no earlier index, as having an
\* invalid hash and every later index as having an invalid link.
TamperingAttributed ==
    ValidateChain(blocks) =>
        \A i \in 1..(Len(blocks) - 2) :
            \A tampered \in Tamperings(blocks, i) :
                tampered # blocks =>
                    LET report == ValidateChainReport(tampered)
                    IN /\ \E flag \in report :
                             /\ flag.index = i
                             /\ flag.kind \in {"block", "proof-of-work"}
                       /\ \A flag \in report : flag.index >= i
                       /\ \A j \in (i + 1)..(Len(blocks) - 1) :
                             [index |-> j, kind |-> "linkage"] \in report

\* C15: a block that mineBlock found is appended only when it passes the
\* five stages against the tip current at submission; when the tip changed
\* during the search the block is rejected, mineBlock returns null and the
\* ledger is unchanged; of the blocks mined on one tip, once one is admitted
\* every other one is rejected, at whatever later time it is submitted.
StaleMinedBlockRejected ==
    \A i \in 1..Len(mining), saveOk \in BOOLEAN :
        LET outcome == SubmitMined(blocks, utxos, pool, mempool, mining[i],
                                   saveOk, now)
        IN /\ outcome.ok =>
                 /\ AddBlockStages(blocks, utxos, PowMineBlock(mining[i]).block, now)
                 /\ mining[i].previousHash = Last(blocks).hash
           /\ mining[i].previousHash # Last(blocks).hash =>
                 ~outcome.ok /\ LedgerUnchanged(outcome)
           /\ outcome.ok =>
                 \A j \in 1..Len(mining), t \in now..MaxTime :
                     (j # i /\ mining[j].previousHash = mining[i].previousHash) =>
                         ~SubmitMined(outcome.blocks, outcome.utxos, outcome.pool,
                                      outcome.mempool, mining[j], TRUE, t).ok

\* two miners have found different blocks on the tip, each of which passes
\* the five stages
MinersRace ==
    \E i \in 1..Len(mining), j \in 1..Len(mining) :
        /\ mining[i] # mining[j]
        /\ mining[i].previousHash = Last(blocks).hash
        /\ mining[j].previousHash = Last(blocks).hash
        /\ SubmitMined(blocks, utxos, pool, mempool, mining[i], TRUE, now).ok
        /\ SubmitMined(blocks, utxos, pool, mempool, mining[j], TRUE, now).ok

\* the blocks of a chain that a call of mineBlock for address mined
MinedBy(bl, address) ==
    {i \in 2..Len(bl) : bl[i].transactions[1].outputs[1].address = address}

\* C16: after k successful calls of mineBlock(addr) on a fresh ledger, no
\* transaction spending the rewards, getBalance(addr) is k times the block
\* reward, whatever the wall-clock times at which the blocks are mined.
MinedRewardsAddUp ==
    \A address \in Racers :
        GetBalance(utxos, address) =
            BlockReward * Cardinality(MinedBy(blocks, address))

\* the miner, the sender, the receiver and the amount of a candidate block
\* that holds a reward and one payment built by createTransaction
PaidBy(candidate) == utxos[InputKey(candidate.transactions[2].inputs[1])].address

PaidTo(candidate) == candidate.transactions[2].outputs[1].address

PaidAmount(candidate) == candidate.transactions[2].outputs[1].amount

RewardedTo(candidate) == candidate.transactions[1].outputs[1].address

\* C17: when a transaction that createTransaction(from, to, amount) built,
\* from and to different, was accepted by addTransaction and is included in
\* a block mined to a third address, getBalance(from) has decreased by
\* amount and getBalance(to) has increased by amount.
PaymentMovesAmount ==
    \A i \in 1..Len(mining) :
        LET outcome == SubmitMined(blocks, utxos, pool, mempool, mining[i],
                                   TRUE, now)
        IN (/\ outcome.ok
            /\ Len(mining[i].transactions) = 2
            /\ PaidBy(mining[i]) # PaidTo(mining[i])
            /\ RewardedTo(mining[i]) \notin {PaidBy(mining[i]), PaidTo(mining[i])}) =>
               /\ GetBalance(outcome.utxos, PaidBy(mining[i])) =
                      GetBalance(utxos, PaidBy(mining[i])) - PaidAmount(mining[i])
               /\ GetBalance(outcome.utxos, PaidTo(mining[i])) =
                      GetBalance(utxos, PaidTo(mining[i])) + PaidAmount(mining[i])

\* a block mined to a third address is about to be admitted that holds a
\* payment with change
PaymentMined ==
    \E i \in 1..Len(mining) :
        /\ SubmitMined(blocks, utxos, pool, mempool, mining[i], TRUE, now).ok
        /\ Len(mining[i].transactions) = 2
        /\ Len(mining[i].transactions[2].outputs) = 2
        /\ PaidBy(mining[i]) # PaidTo(mining[i])
        /\ RewardedTo(mining[i]) \notin {PaidBy(mining[i]), PaidTo(mining[i])}

\* the addresses that hold outputs
Holders == Racers \cup {"bob", "genesis"}

\* C18: after any sequence of successful mineBlock, addBlock and
\* considerChainReorganization calls on a persistent ledger, closing it and
\* constructing a new Blockchain on the same database yields the same tip
\* hash and the same balance for every address.
ReopenKeepsTipAndBalances ==
    LET opened == InitializeChain(stored, now)
    IN /\ Last(opened.blocks).hash = Last(blocks).hash
       /\ \A address \in Holders :
             GetBalance(opened.utxos, address) = GetBalance(utxos, address)

\* the blocks of the last adjustment interval: the last AdjustmentInterval
\* blocks of the run
IntervalGaps(recentBlocks) ==
    {recentBlocks[i + 1].timestamp - recentBlocks[i].timestamp :
        i \in (Len(recentBlocks) - AdjustmentInterval + 1)..(Len(recentBlocks) - 1)}

\* the run ends at an adjustment checkpoint and holds a whole interval
AtCheckpoint(recentBlocks) ==
    /\ Len(recentBlocks) >= 2
    /\ Len(recentBlocks) >= AdjustmentInterval
    /\ Last(recentBlocks).index % AdjustmentInterval = 0

\* a call at a checkpoint has returned
ReturnedAtCheckpoint ==
    /\ adjustment.returned # <<>>
    /\ AtCheckpoint(adjustment.recentBlocks)

OffCheckpointKeepsDifficulty ==
    /\ adjustment.returned # <<>>
    /\ ~AtCheckpoint(adjustment.recentBlocks)
    => adjustment.returned[1] = adjustment.currentDifficulty

\* a call has returned for a whole interval of fast blocks whose last index
\* is no multiple of the adjustment interval
FastBlocksOffCheckpoint ==
    /\ adjustment.returned # <<>>
    /\ Len(adjustment.recentBlocks) >= AdjustmentInterval
    /\ Last(adjustment.recentBlocks).index % AdjustmentInterval # 0
    /\ IntervalGaps(adjustment.recentBlocks) = {OneSecond}

\* C21: validateProofOfWork(block) is true if and only if block.hash begins
\* with at least block.difficulty zero characters and block.hash is the
\* recomputed hash of the block.
ProofOfWorkValidatedExactly ==
    \A b \in CandidateBlocks(blocks, utxos, pool, now) :
        ValidateProofOfWork(b) <=>
            /\ LeadingZeros(b.hash) >= b.difficulty
            /\ b.hash = CalculateHash(b)

\* validateProofOfWork is given a block whose hash has the zeros asked for
\* but is not the hash of its header, one whose hash is recomputed but has
\* too few zeros, and one it accepts
ProofOfWorkCasesOffered ==
    LET offered == CandidateBlocks(blocks, utxos, pool, now)
    IN /\ \E b \in offered : /\ LeadingZeros(b.hash) >= b.difficulty
                             /\ b.hash # CalculateHash(b)
                             /\ ~ValidateProofOfWork(b)
       /\ \E b \in offered : /\ LeadingZeros(b.hash) < b.difficulty
                             /\ b.hash = CalculateHash(b)
                             /\ ~ValidateProofOfWork(b)
       /\ \E b \in offered : ValidateProofOfWork(b)

\* the transactions that are held or offered
TransactionsAround ==
    ChainTransactions(blocks) \cup Range(pool)
    \cup CandidateTransactions(blocks, utxos, now)

\* the blocks that are held or offered
BlocksAround == Range(blocks) \cup CandidateBlocks(blocks, utxos, pool, now)

\* deserialize(serialize(t)) returns a transaction with the fields of t
TxRoundTripKeeps(t) ==
    LET result == TxDeserialize(TxSerialize(t), now)
    IN /\ ~result.thrown
       /\ result.value.id = t.id
       /\ result.value.timestamp = t.timestamp
       /\ result.value.inputs = t.inputs
       /\ result.value.outputs = t.outputs

\* deserialize(serialize(b)) returns a block with the header fields of b
BlockRoundTripKeeps(b) ==
    LET result == BlockDeserialize(BlockSerialize(b), now)
    IN /\ ~result.thrown
       /\ result.value.index = b.index
       /\ result.value.timestamp = b.timestamp
       /\ result.value.previousHash = b.previousHash
       /\ result.value.merkleRoot = b.merkleRoot
       /\ result.value.nonce = b.nonce
       /\ result.value.difficulty = b.difficulty
       /\ result.value.hash = b.hash

\* the id of t is the digest of its fields
TxSelfConsistent(t) == t.id = CalculateId(t.timestamp, t.inputs, t.outputs)

\* the Merkle root and the hash of b and the ids of its transactions are the
\* recomputed ones
BlockSelfConsistent(b) ==
    /\ b.hash = CalculateHash(b)
    /\ b.merkleRoot = CalculateMerkleRoot(b.transactions)
    /\ \A i \in 1..Len(b.transactions) : TxSelfConsistent(b.transactions[i])

IntervalTime(recentBlocks) ==
    Last(recentBlocks).timestamp
    - recentBlocks[Len(recentBlocks) - AdjustmentInterval + 1].timestamp

\* the time the last adjustment interval is meant to take
IntervalTarget == TargetBlockTime * (AdjustmentInterval - 1)

\* the difficulty the policy names for the ratio actualTime / expectedTime,
\* the ratio not clamped
PolicyDifficulty(actualTime, expectedTime, currentDifficulty) ==
    IF actualTime > expectedTime THEN Max(1, currentDifficulty - 1)
    ELSE IF 2 * actualTime < expectedTime THEN currentDifficulty + 2
    ELSE IF 10 * actualTime < 8 * expectedTime THEN currentDifficulty + 1
    ELSE currentDifficulty

NeverBelowOne ==
    adjustment.returned # <<>> => adjustment.returned[1] >= 1

\* C24, amended: a call of calculateNextDifficulty at an adjustment
\* checkpoint returns no value below 1, also when currentDifficulty is below
\* 1; a call that is not at a checkpoint returns currentDifficulty as it is,
\* below 1 when currentDifficulty is.
NeverBelowOneAtCheckpoint ==
    adjustment.returned # <<>> =>
        IF AtCheckpoint(adjustment.recentBlocks)
        THEN adjustment.returned[1] >= 1
        ELSE adjustment.returned[1] < 1 <=> adjustment.currentDifficulty < 1

\* a call at a checkpoint has returned for a current difficulty below 1 and
\* an interval that took its target time
FloorApplied ==
    /\ ReturnedAtCheckpoint
    /\ adjustment.currentDifficulty < 1
    /\ IntervalTime(adjustment.recentBlocks) = IntervalTarget

\* the candidate the search began with, its nonce n later
Searched(n) ==
    Block(search.block.index, search.block.transactions,
          search.block.previousHash, n, search.block.difficulty,
          search.block.timestamp)

\* the search never passes the safety limit; unless the caller asked to
\* stop, what it returns is the block of the first nonce from 0 on whose hash
\* meets the difficulty, or null after more than SafetyLimit attempts; after
\* null no block is admitted
SearchSettled ==
    /\ search.attempts <= SafetyLimit + 1
    /\ search.returned # <<>> /\ ~search.stopAsked =>
          IF search.returned[1].found
          THEN /\ search.returned[1].block = Searched(search.attempts)
               /\ HasValidProofOfWork(search.returned[1].block)
               /\ \A n \in 0..(search.attempts - 1) :
                     ~HasValidProofOfWork(Searched(n))
          ELSE search.attempts > SafetyLimit
    /\ search.returned = <<NoBlock>> /\ search.submitted =>
          blocks = <<Genesis>>

StopEndsSearch ==
    search.stopAsked =>
        /\ search.afterStop <= 1
        /\ search.returned # <<>> => search.returned = <<NoBlock>>
        /\ search.submitted => blocks = <<Genesis>>

\* the errors of validateTransaction name every check among the four that
\* fails for tx
EveryFailureNamed(tx, errors) ==
    /\ CheckDuplicateInputs(tx) # <<>> =>
          \E i \in 1..Len(errors) : errors[i] \in Range(CheckDuplicateInputs(tx))
    /\ CheckUTXOValidity(tx, utxos) # <<>> =>
          \E i \in 1..Len(errors) : errors[i] \in Range(CheckUTXOValidity(tx, utxos))
    /\ CheckSufficientBalance(tx, utxos) # <<>> =>
          \E i \in 1..Len(errors) :
              errors[i] \in Range(CheckSufficientBalance(tx, utxos))
    /\ CheckMempoolConflicts(tx, mempool) # <<>> =>
          \E i \in 1..Len(errors) :
              errors[i] \in Range(CheckMempoolConflicts(tx, mempool))

\* C27: for a transaction with inputs, the errors that validateTransaction
\* returns contain an entry for every failing check among duplicate inputs,
\* inputs that are not unspent, insufficient input value and mempool
\* conflicts (isValid being "no errors").
AllReasonsReported ==
    \A tx \in CandidateTransactions(blocks, utxos, now) :
        tx.inputs # <<>> =>
            EveryFailureNamed(tx, ValidateTransaction(tx, utxos, mempool))

\* ------------------------------------------- blocks stamped ahead of time
\* the longer chains on a prefix of the own chain whose last block is
\* stamped more than two hours after the clock
FutureChains(bl, t) ==
    UNION {{Append(PlainExtend(SubSeq(bl, 1, k), n),
                   FutureBlock(Last(PlainExtend(SubSeq(bl, 1, k), n)), t)) :
                n \in {m \in 0..(MaxChain - k - 1) : k + m + 1 > Len(bl)}} :
           k \in 1..Len(bl)}

\* a call of Blockchain.considerChainReorganization with such a chain
DoReorganizeAhead ==
    \E alternativeChain \in FutureChains(blocks, now) :
        LET outcome == ConsiderChainReorganization(blocks, utxos, pool, mempool,
                                                   alternativeChain)
        IN /\ Install(outcome)
           /\ UNCHANGED <<mining, now, stored, adjustment, search, handed>>

SkewNext ==
    \/ Next
    \/ DoReorganizeAhead

SkewSpec == Init /\ [][SkewNext]_vars

\* the block at position i of the chain after a step was not there before
Entering(i) == i > Len(blocks) \/ blocks'[i] # blocks[i]

\* addBlock returns false for every candidate stamped more than two hours
\* after the clock
AddBlockRefusesAhead ==
    \A block \in CandidateBlocks(blocks, utxos, pool, now) :
        block.timestamp > now + TwoHours =>
            \A saveOk \in BOOLEAN :
                ~AddBlock(blocks, utxos, pool, mempool, block, saveOk, now).ok

\* C28: every block that enters the chain, through addBlock or through
\* considerChainReorganization, is stamped at most two hours after the clock
\* of the step that admits it, and addBlock returns false for a candidate
\* stamped later than that.
AdmittedWithinSkew ==
    /\ [][\A i \in 1..Len(blocks') :
             Entering(i) => blocks'[i].timestamp <= now + TwoHours]_vars
    /\ []AddBlockRefusesAhead

\* ------------------------------------------- listings handed to callers
\* What a getter returns: the collection, whether it is the ledger's own
\* object (own) or a new one, and whether its elements are the ledger's own
\* objects (ownItems).
\* Blockchain.getChain: [...this.blocks], a new array of the chain's blocks
GetChain(bl) == [own |-> FALSE, ownItems |-> TRUE, items |-> bl]

\* Blockchain.getUTXOs: Array.from(...).filter(...), a new array of the
\* UTXO objects of the unspent set
GetUTXOs(u, address) ==
    [own |-> FALSE, ownItems |-> TRUE, items |-> GetUTXOsForAddress(u, address)]

\* Blockchain.getUTXOSet: this.utxoSet
GetUTXOSet(u) == [own |-> TRUE, ownItems |-> TRUE, items |-> u]

\* UTXO.markAsSpent on an output of the set: every reader of the set skips
\* the outputs whose spent flag is set
MarkAsSpent(u, key) == [k \in DOMAIN u \ {key} |-> u[k]]

\* what a caller may do to an array of blocks: push, pop, replace the last
ChainEdits(list) ==
    {Append(list, PlainBlock(Last(list))),
     SubSeq(list, 1, Len(list) - 1),
     [list EXCEPT ![Len(list)] = FutureBlock(Genesis, now)]}

\* what a caller may do to a UTXOSet: clear, spendUTXO, addUTXO
UTXOSetEdits(u) ==
    {EmptyUtxos}
    \cup {SpendUTXO(u, k[1], k[2]) : k \in DOMAIN u}
    \cup {AddUTXO(u, Reward(0).id, 0, Reward(0).outputs[1])}

\* the addresses whose outputs a caller lists
ListedAddresses == Miners \cup Payees

\* a caller edits the list that getChain returned
CallerEditsChain ==
    \E edited \in ChainEdits(GetChain(blocks).items) :
        /\ handed.calls < MaxListings
        /\ blocks' = IF GetChain(blocks).own THEN edited ELSE blocks
        /\ handed' = [getter |-> "getChain", holds |-> edited,
                      calls |-> handed.calls + 1]
        /\ UNCHANGED <<utxos, pool, mempool, mining, now, stored, adjustment,
                       search>>

\* a caller removes an element from the list that getUTXOs returned
CallerEditsUTXOs ==
    \E address \in ListedAddresses :
        \E key \in GetUTXOs(utxos, address).items :
            /\ handed.calls < MaxListings
            /\ utxos' = IF GetUTXOs(utxos, address).own
                        THEN MarkAsSpent(utxos, key) ELSE utxos
            /\ handed' = [getter |-> "getUTXOs",
                          holds |-> GetUTXOs(utxos, address).items \ {key},
                          calls |-> handed.calls + 1]
            /\ UNCHANGED <<blocks, pool, mempool, mining, now, stored,
                           adjustment, search>>

\* a caller marks as spent an element of the list that getUTXOs returned
CallerMarksSpent ==
    \E address \in ListedAddresses :
        \E key \in GetUTXOs(utxos, address).items :
            /\ handed.calls < MaxListings
            /\ utxos' = IF GetUTXOs(utxos, address).ownItems
                        THEN MarkAsSpent(utxos, key) ELSE utxos
            /\ handed' = [getter |-> "getUTXOs",
                          holds |-> GetUTXOs(utxos, address).items,
                          calls |-> handed.calls + 1]
            /\ UNCHANGED <<blocks, pool, mempool, mining, now, stored,
                           adjustment, search>>

\* a caller calls clear, spendUTXO or addUTXO on what getUTXOSet returned
CallerEditsUTXOSet ==
    \E edited \in UTXOSetEdits(GetUTXOSet(utxos).items) :
        /\ handed.calls < MaxListings
        /\ utxos' = IF GetUTXOSet(utxos).own THEN edited ELSE utxos
        /\ handed' = [getter |-> "getUTXOSet", holds |-> edited,
                      calls |-> handed.calls + 1]
        /\ UNCHANGED <<blocks, pool, mempool, mining, now, stored, adjustment,
                       search>>

\* the ledger takes transactions and blocks, callers list and edit
CallerNext ==
    \/ Tick
    \/ DoAddTransaction
    \/ DoAddBlock
    \/ CallerEditsChain
    \/ CallerEditsUTXOs
    \/ CallerMarksSpent
    \/ CallerEditsUTXOSet

CallerSpec == Init /\ [][CallerNext]_vars

\* C29: what a caller does to the list that getChain returned, or to what
\* getUTXOs and getUTXOSet returned, changes neither the chain nor the
\* unspent set of the ledger.
ListingsAreSnapshots ==
    [][(\/ CallerEditsChain
        \/ CallerEditsUTXOs
        \/ CallerMarksSpent
        \/ CallerEditsUTXOSet) => (blocks' = blocks /\ utxos' = utxos)]_vars

\* --------------------------------------------- double-spend attempts
\* the contested inputs of a transaction: the positions of its inputs that a
\* transaction of the mempool with another id references too, with the id
\* of that transaction
ContestedInputs(tx, mp) ==
    LET others == {y \in mp : y.id # tx.id}
    IN UNION {{<<n, y.id>> : n \in {x \in 1..Len(tx.inputs) :
                   \E j \in 1..Len(y.inputs) :
                       InputKey(y.inputs[j]) = InputKey(tx.inputs[x])}} :
              y \in others}

\* every recorded entry names the attacking transaction, a conflicting
\* transaction of the mempool and an input that both reference, and every
\* contested input is recorded once
AttemptsNameContested(tx, mp, t, recorded) ==
    /\ \A a \in BagToSet(recorded) :
           /\ a.attemptedTxId = tx.id
           /\ \E c \in ContestedInputs(tx, mp) :
                  /\ a.conflictingTxId = c[2]
                  /\ a.utxoId = InputKey(tx.inputs[c[1]])
    /\ \A c \in ContestedInputs(tx, mp) :
           CopiesIn(DoubleSpendAttempt(tx, c[2], tx.inputs[c[1]], t), recorded) = 1

\* C30: the double-spend attempts that validateTransaction records for a
\* transaction that createTransaction returned name the attacking
\* transaction, the conflicting transaction of the mempool and an input that
\* both reference, one attempt per contested input.
OneAttemptPerContestedInput ==
    \A fromAddress \in Payers, toAddress \in Payees, amount \in PayAmounts :
        \A tx \in CreatedTransactions(utxos, fromAddress, toAddress, amount, now) :
            AttemptsNameContested(tx, mempool, now,
                                  RecordedAttempts(tx, utxos, mempool, now))

\* ------------------------------------------------ the empty Merkle case
\* C31: a block constructed with an empty transaction list on the tip of
\* the chain has as its merkleRoot the root of the Merkle tree that
\* MerkleTree.fromTransactionIds builds for no ids, the tree on the
\* placeholder leaf.
EmptyBlockRootIsTreeRoot ==
    Block(Last(blocks).index + 1, <<>>, Last(blocks).hash, 0, 1, now).merkleRoot
        = FromTransactionIds(<<>>)

\* ------------------------------------------- the mempool and the ledger
\* C32: every input of every transaction that waits in the mempool (the
\* validator's and the pool's) references an output that is unspent in the
\* UTXO set.
MempoolInputsUnspent ==
    \A tx \in mempool \cup Range(pool) :
        \A i \in 1..Len(tx.inputs) :
            HasUnspentUTXO(utxos, tx.inputs[i].txId, tx.inputs[i].outputIndex)

\* ------------------------------------------------- mining on the ledger
\* the chain has the tip that the candidate of a mineBlock call was built on
BuiltOnTip(candidate) ==
    /\ candidate.previousHash = Last(blocks).hash
    /\ candidate.index = Last(blocks).index + 1

\* C33: when the search of a mineBlock call in flight finds a block and the
\* chain still ends with the block the candidate was built on, the block
\* passes addBlock (the database saving it) and mineBlock returns it.
MinedBlockIsAdmitted ==
    \A i \in 1..Len(mining) :
        (PowMineBlock(mining[i]).found /\ BuiltOnTip(mining[i])) =>
            SubmitMined(blocks, utxos, pool, mempool, mining[i], TRUE, now).ok

\* the miners mine in turn while callers submit transactions
SubmitNext ==
    \/ MintTick
    \/ MintBegin
    \/ MineSubmit
    \/ DoAddTransaction

SubmitSpec == Init /\ [][SubmitNext]_vars

\* the block holds one transaction without inputs, the first, which pays
\* the block reward to a miner in a single output; at most SelectMax
\* transactions follow it
HoldsOneCoinbase(block) ==
    /\ block.transactions # <<>>
    /\ Len(block.transactions) <= SelectMax + 1
    /\ block.transactions[1].inputs = <<>>
    /\ Len(block.transactions[1].outputs) = 1
    /\ block.transactions[1].outputs[1].amount = BlockReward
    /\ block.transactions[1].outputs[1].address \in Miners \cup Racers
    /\ \A j \in 2..Len(block.transactions) : block.transactions[j].inputs # <<>>

\* C34: the block that a mineBlock call in flight returns holds exactly one
\* transaction without inputs, placed first, whose single output pays the
\* block reward to the miner; every other transaction of the block has an
\* input and the block holds at most 11 transactions.
MinedBlocksHoldOneCoinbase ==
    \A i \in 1..Len(mining) :
        LET outcome == SubmitMined(blocks, utxos, pool, mempool, mining[i],
                                   TRUE, now)
        IN outcome.ok => HoldsOneCoinbase(Last(outcome.blocks))

\* ------------------------------------------------- value in the chain
\* the amount of the output of the chain that an input references, nothing
\* when the chain holds no such output
ReferencedAmount(bl, input) ==
    LET sources == {tx \in ChainTransactions(bl) :
                       /\ tx.id = input.txId
                       /\ input.outputIndex < Len(tx.outputs)}
    IN IF sources = {} THEN 0
       ELSE (CHOOSE tx \in sources : TRUE).outputs[input.outputIndex + 1].amount

RECURSIVE ReferencedValue(_, _, _)
ReferencedValue(bl, inputs, n) ==
    IF n = 0 THEN 0
    ELSE ReferencedValue(bl, inputs, n - 1) + ReferencedAmount(bl, inputs[n])

\* a call of Blockchain.addBlock with a block of another miner that holds,
\* after its reward, a payment of more than the output it spends
DoAddBlockOverpaid ==
    LET ts == BlockTime(Last(blocks), now)
    IN \E overspend \in Overspends(blocks, utxos, ts) :
         LET block == ExternalBlock(Last(blocks), <<Reward(ts), overspend>>, 1, ts)
         IN \E saveOk \in SaveResults(blocks, utxos, block, now) :
              LET outcome == AddBlock(blocks, utxos, pool, mempool, block,
                                      saveOk, now)
              IN /\ Len(outcome.blocks) <= MaxChain
                 /\ Install(outcome)
                 /\ UNCHANGED <<mining, now, stored, adjustment, search, handed>>

\* blocks are added and mined, none is adopted with another chain
OverpayNext ==
    \/ Tick
    \/ DoAddTransaction
    \/ DoAddBlock
    \/ MineBegin
    \/ MineSubmit
    \/ DoAddBlockOverpaid

OverpaySpec == Init /\ [][OverpayNext]_vars

\* C35: no transaction with inputs in a block of the chain pays out more
\* than the outputs that its inputs reference hold.
NoValueFromInputs ==
    \A tx \in ChainTransactions(blocks) :
        tx.inputs # <<>> =>
            GetTotalOutputAmount(tx)
                <= ReferencedValue(blocks, tx.inputs, Len(tx.inputs))

\* ------------------------------------------- the difficulty of a block
\* reward-only blocks of another miner on the tip that declare difficulty 0
EasyBlocks(bl, t) ==
    {ExternalBlock(Last(bl), <<Reward(BlockTime(Last(bl), t))>>, 0,
                   BlockTime(Last(bl), t))}

\* a call of Blockchain.addBlock with such a block
DoAddBlockEasy ==
    \E block \in EasyBlocks(blocks, now) :
        \E saveOk \in SaveResults(blocks, utxos, block, now) :
            LET outcome == AddBlock(blocks, utxos, pool, mempool, block, saveOk, now)
            IN /\ Len(outcome.blocks) <= MaxChain
               /\ Install(outcome)
               /\ UNCHANGED <<mining, now, stored, adjustment, search, handed>>

EasyNext ==
    \/ Tick
    \/ DoAddTransaction
    \/ DoAddBlock
    \/ MineBegin
    \/ MineSubmit
    \/ DoAddBlockEasy

EasySpec == Init /\ [][EasyNext]_vars

\* C36: addBlock returns true only for a candidate whose difficulty is the
\* one that calculateNextDifficulty gives for the chain; a candidate that
\* declares a lower difficulty, 0 included, is rejected.
AdmittedAtNextDifficulty ==
    \A block \in CandidateBlocks(blocks, utxos, pool, now)
                 \cup EasyBlocks(blocks, now) :
        \A saveOk \in BOOLEAN :
            AddBlock(blocks, utxos, pool, mempool, block, saveOk, now).ok =>
                block.difficulty = NextDifficulty(blocks)

\* ------------------------------------------ transaction ids in the chain
\* the places of the chain: block position and position in the block
ChainPlaces(bl) ==
    UNION {{<<i, j>> : j \in 1..Len(bl[i].transactions)} : i \in 1..Len(bl)}

\* C37: the transactions of the blocks of the chain have pairwise distinct
\* ids, so that no output is recorded twice under one (txId, outputIndex).
ChainIdsDistinct ==
    \A a, b \in ChainPlaces(blocks) :
        blocks[a[1]].transactions[a[2]].id = blocks[b[1]].transactions[b[2]].id
            => a = b

\* ------------------------------------------------ the chain over time
\* C38: no step of addBlock, mineBlock or considerChainReorganization makes
\* the chain shorter or changes its first block, the genesis block.
ChainNeverShrinks ==
    [][Len(blocks') >= Len(blocks) /\ blocks'[1] = blocks[1]]_vars

\* a reorganization has replaced the block that the candidate of a
\* mineBlock call in flight was built on
ReplacedUnderMiner ==
    \E i \in 1..Len(mining) :
        /\ mining[i].index <= Len(blocks)
        /\ blocks[mining[i].index].hash # mining[i].previousHash

\* ------------------------------------- what createTransaction returns
\* the transaction spends unspent outputs of the sender and pays out exactly
\* what it takes in
SpendsOwnOutputs(tx, u, fromAddress) ==
    /\ \A i \in 1..Len(tx.inputs) :
           /\ InputKey(tx.inputs[i]) \in DOMAIN u
           /\ u[InputKey(tx.inputs[i])].address = fromAddress
    /\ GetTotalOutputAmount(tx) = TotalInputValue(tx.inputs, u)

\* C39: a transaction that createTransaction(from, to, amount) returns
\* spends unspent outputs owned by from, pays out the sum of its inputs, and
\* is accepted by an addTransaction that follows at once, also when other
\* transactions of from wait in the mempool.
CreatedTransactionAccepted ==
    \A fromAddress \in Payers, toAddress \in Payees, amount \in PayAmounts :
        \A tx \in CreatedTransactions(utxos, fromAddress, toAddress, amount, now) :
            /\ SpendsOwnOutputs(tx, utxos, fromAddress)
            /\ AddTransaction(blocks, utxos, pool, mempool, tx).ok

====
